---- MODULE Spec2Model ----
(***************************************************************************)
(* Delivery ledger and resilience layer of the daily-report service:       *)
(*   scheduler.retry_on_db_lock            (bounded retry with backoff)    *)
(*   report_generator.generate_daily_report (upsert under the file lock)   *)
(*   report_generator.send_pending_daily_reports (send-latest-only)        *)
(* and the trade-message pipeline:                                         *)
(*   database.ensure_database_health / init_database (storage health gate) *)
(*   report_generator.parse_block_trade_message      (trade parser)        *)
(*   message_listener.send_alert_email               (alert decision)      *)
(*   message_listener.MessageListener.handle_new_message (listener)        *)
(* and the daily aggregation:                                              *)
(*   report_generator.build_daily_report_data  (statistics and rankings)   *)
(*   report_generator.extract_spot_prices      (spot price sources)        *)
(*   report_generator.build_daily_report_html  (cross-reference tags)      *)
(***************************************************************************)
EXTENDS Integers, Sequences, FiniteSets, TLC

\* ------------------------------------------------------------------------
\* Bounds of the model
\* ------------------------------------------------------------------------
MaxDate == 2           \* report dates are 1..MaxDate
MaxGen == 2            \* number of generate_daily_report runs explored
MaxRuns == 2           \* number of scheduled send-check runs explored
MaxRetriesArg == 5     \* largest max_retries argument explored for the decorator
MaxClock == 2          \* the wall clock reads 0..MaxClock
MaxInits == 2          \* number of init_database calls explored
MaxLines == 3          \* body lines of a message text
MaxMsgId == 2          \* Telegram message ids are 1..MaxMsgId
MaxDeliveries == 3     \* number of NewMessage events explored
MaxRows == 3           \* rows of the messages table in the report window
MaxTop == 2            \* largest top_limit argument explored

\* ------------------------------------------------------------------------
\* Program constants
\* ------------------------------------------------------------------------
SCHED_MAX_RETRIES == 5   \* @retry_on_db_lock(max_retries=5, ...)
SCHED_INITIAL_DELAY == 60 \* @retry_on_db_lock(..., initial_delay=60)
COMMIT_MAX_RETRIES == 3  \* max_retries = 3 in generate_daily_report
BTC_VOLUME_THRESHOLD == 200       \* config.BTC_VOLUME_THRESHOLD default
ETH_VOLUME_THRESHOLD == 5000      \* config.ETH_VOLUME_THRESHOLD default
ETH_VOLUME_THRESHOLD_TEST == 1000 \* config.ETH_VOLUME_THRESHOLD_TEST default
PREMIUM_THRESHOLD_USD == 1000000  \* premium_threshold_usd = 1_000_000
MONITORED_EXCHANGE == "Deribit"   \* config.MONITORED_EXCHANGE default
BTC_SPOT_MIN == 1000     \* if 1000 < price_val < 200000 in parse_spot_message
BTC_SPOT_MAX == 200000
ETH_SPOT_MIN == 100      \* if 100 < price_val < 10000 in parse_spot_message
ETH_SPOT_MAX == 10000

Dates == 1..MaxDate
Procs == {1, 2}          \* 1: the scheduler process, 2: a manual script process
None == 0

VARIABLES
    ledger,      \* daily_reports table: report_date -> row
    lockHolder,  \* holder of /tmp/dailyreport.lock, None when free
    gen,         \* per process: the running generate_daily_report call
    snd,         \* the running send_pending_daily_reports call
    wr,          \* the retry_on_db_lock wrapper around the wrapped job
    dbReady,     \* session_factories['prod'] exists in the scheduler process
    emailEnabled,\* config.EMAIL_ENABLED
    nGen,        \* number of generate runs started (payload stamp)
    nRuns,       \* number of send-check jobs started (clock for sent_at)
    hist,        \* history of the ledger's life, used by the properties only
    dbFile,      \* what the sqlite file at db_path is
    backups,     \* timestamps t for which <db_path>.corrupt.<t> exists
    clock,       \* the wall clock read by datetime.now()
    hg,          \* the running init_database / ensure_database_health call
    nInit,       \* number of init_database calls started
    msg,         \* the text handed to send_alert_email
    alertCfg,    \* config.VOLUME_ALERT_ENABLED and config.ALERT_TEST_MODE
    ps,          \* the running parse_block_trade_message call
    al,          \* the running send_alert_email call
    messages,    \* messages table: message_id -> saved text
    outbox,      \* alert e-mails handed to the SMTP server, oldest first
    nDeliv,      \* number of NewMessage events delivered to the listener
    rep          \* the report data built from the messages table

ledgerVars == <<ledger, lockHolder, gen, snd, wr, dbReady, nGen, nRuns, hist>>
healthVars == <<dbFile, backups, clock, hg, nInit>>
alertVars == <<msg, alertCfg, ps, al>>
feedVars == <<messages, outbox, nDeliv, rep>>
pipelineVars == <<healthVars, alertVars, feedVars>>

vars == <<ledgerVars, emailEnabled, pipelineVars>>

\* ------------------------------------------------------------------------
\* Rest values of the pipeline variables
\* ------------------------------------------------------------------------
\* Python's None for an optional value v: <<>> is None, <<v>> is v
Absent == <<>>
Some(v) == <<v>>

\* no init_database call is running
HgIdle ==
    [pc |-> "idle", seen |-> "absent", how |-> "none", stamp |-> 0,
     gate |-> "none", init |-> "none"]

\* result = {...} as created on entry of parse_block_trade_message, reduced
\* to the keys that send_alert_email reads
NewResult ==
    [asset |-> "Unknown", exchange |-> "Unknown",
     options_legs |-> <<>>, non_options_legs |-> <<>>]

\* no parse_block_trade_message call is running
PsIdle == [pc |-> "idle", i |-> 0, cur |-> Absent, result |-> NewResult]

\* no send_alert_email call is running
AlIdle ==
    [pc |-> "idle", outcome |-> "none", reasons |-> {}, threshold |-> Absent,
     emails |-> 0]

\* the empty text
NoMsg == [body |-> <<>>, footer |-> Absent]

HealthIdle ==
    /\ dbFile = "absent"
    /\ backups = {}
    /\ clock = 0
    /\ hg = HgIdle
    /\ nInit = 0

AlertIdle ==
    /\ msg = NoMsg
    /\ alertCfg = [volume_alert_enabled |-> TRUE, alert_test_mode |-> FALSE]
    /\ ps = PsIdle
    /\ al = AlIdle

FeedIdle ==
    /\ messages = <<>>
    /\ outbox = <<>>
    /\ nDeliv = 0
    /\ rep = [pc |-> "idle"]

PipelineIdle == HealthIdle /\ AlertIdle /\ FeedIdle

\* ------------------------------------------------------------------------
\* Exceptions.  An exception is known by its class and by the phrases that
\* occur in str(e).lower().
\* ------------------------------------------------------------------------
ErrKinds == {"sqlite_locked", "sa_locked", "sa_readonly", "sqlite_nosuchtable",
             "sa_diskio", "sa_integrity", "runtime", "lock_timeout"}

\* isinstance(e, sqlite3.OperationalError)
IsSqliteOperationalError(e) == e \in {"sqlite_locked", "sqlite_nosuchtable"}

\* the phrases of interest contained in str(e).lower()
ErrorStr(e) ==
    CASE e = "sqlite_locked"      -> {"database is locked"}
      [] e = "sa_locked"          -> {"operationalerror", "database is locked"}
      [] e = "sa_readonly"        -> {"operationalerror", "readonly database",
                                      "attempt to write a readonly database"}
      [] e = "sqlite_nosuchtable" -> {"no such table"}
      [] e = "sa_diskio"          -> {"operationalerror", "disk i/o error"}
      [] e = "sa_integrity"       -> {"integrityerror", "unique constraint failed"}
      [] e = "runtime"            -> {"manual recovery required"}
      [] e = "lock_timeout"       -> {"could not be acquired"}

\* errors raised by the storage engine
StorageErrors == {"sqlite_locked", "sa_locked", "sa_readonly",
                  "sqlite_nosuchtable", "sa_diskio", "sa_integrity"}

\* the transient class: the store is locked or read-only
TransientLockErrors == {"sqlite_locked", "sa_locked", "sa_readonly"}

\* ------------------------------------------------------------------------
\* scheduler.retry_on_db_lock
\* ------------------------------------------------------------------------
is_lock_error(e) ==
    \/ IsSqliteOperationalError(e)
    \/ "readonly database" \in ErrorStr(e)
    \/ "database is locked" \in ErrorStr(e)
    \/ "attempt to write a readonly database" \in ErrorStr(e)
    \/ "operationalerror" \in ErrorStr(e)

WrapperIdle(mr, d) ==
    [pc |-> "idle", max_retries |-> mr, initial_delay |-> d,
     attempt |-> 0, delay |-> 0, last_error |-> "none",
     result |-> "none", value |-> "none"]

\* entry of wrapper(): delay = initial_delay, then the first loop iteration
wrapper_enter(w) ==
    LET w0 == [WrapperIdle(w.max_retries, w.initial_delay)
                 EXCEPT !.delay = w.initial_delay]
    IN IF w.max_retries >= 1
       THEN [w0 EXCEPT !.attempt = 1, !.pc = "call"]
       ELSE [w0 EXCEPT !.pc = "done", !.result = "returned", !.value = "None"]

\* result = await func(*args, **kwargs) begins
wrapper_call(w) == [w EXCEPT !.pc = "running"]

\* func returned v: return result
wrapper_on_return(w, v) ==
    [w EXCEPT !.pc = "done", !.result = "returned", !.value = v]

\* func raised e: except Exception as e
wrapper_on_raise(w, e) ==
    IF is_lock_error(e) /\ w.attempt < w.max_retries
    THEN [w EXCEPT !.last_error = e, !.pc = "sleep"]
    ELSE [w EXCEPT !.last_error = e, !.pc = "done",
                   !.result = "raised", !.value = e]

wrapper_wake_nodouble(w) ==
    [w EXCEPT !.attempt = @ + 1, !.pc = "call"]

\* await asyncio.sleep(delay) is over; delay *= 2; next loop iteration
wrapper_wake(w) ==
    [w EXCEPT !.delay = @ * 2, !.attempt = @ + 1, !.pc = "call"]

\* ------------------------------------------------------------------------
\* database.DailyReport rows
\* ------------------------------------------------------------------------
NoRow == [exists |-> FALSE, is_sent |-> FALSE, sent_at |-> None, payload |-> 0]

\* session.query(DailyReport).filter_by(is_sent=False)
PendingDates(l) == {d \in Dates : l[d].exists /\ ~l[d].is_sent}

RECURSIVE SortDesc(_)
\* .order_by(desc(DailyReport.report_date)) over a set of dates
SortDesc(S) ==
    IF S = {} THEN <<>>
    ELSE LET m == CHOOSE x \in S : \A y \in S : y <= x
         IN <<m>> \o SortDesc(S \ {m})

latest_pending_report_oldest(l) ==
    LET q == SortDesc(PendingDates(l))
    IN IF q = <<>> THEN None ELSE q[Len(q)]

\* .filter_by(is_sent=False).order_by(desc(report_date)).first()
latest_pending_report(l) ==
    LET q == SortDesc(PendingDates(l))
    IN IF q = <<>> THEN None ELSE Head(q)

\* .filter(is_sent == False).filter(report_date < latest_date).all()
backlog_reports(l, latest_date) ==
    {d \in PendingDates(l) : d < latest_date}

\* ------------------------------------------------------------------------
\* report_generator.generate_daily_report, run by process p
\* ------------------------------------------------------------------------
GenIdle ==
    [pc |-> "idle", date |-> None, payload |-> 0, staged |-> "none",
     retry |-> 0, result |-> "none"]

\* the call is over: its locals are gone, the caller sees the outcome
GenEnd(outcome) == [GenIdle EXCEPT !.result = outcome]

\* the scheduler process is single threaded: the bodies of its two jobs
\* contain no await and never overlap
SchedulerThreadFree == gen[1].pc = "idle" /\ snd.pc = "idle"

\* errors init_database can end with (health gate, create_all, PRAGMA)
InitErrors == {"runtime", "sa_locked"}

\* errors a flush/commit can end with
CommitErrors == {"sqlite_locked", "sa_locked", "sqlite_nosuchtable", "sa_diskio"}

\* history bookkeeping of a committed (re)generation of date d
HistRegenerated(h, d, wasSent) ==
    [h EXCEPT !.backlog = @ \ {d}, !.sent = @ \ {d}, !.failed = @ \ {d},
              !.regen = IF wasSent THEN @ \cup {d} ELSE @]

\* window, aggregation and rendering are done; the run reaches "with lock:"
GenStart(p, d) ==
    /\ gen[p].pc = "idle"
    /\ p = 1 => SchedulerThreadFree
    /\ nGen < MaxGen
    /\ nGen' = nGen + 1
    /\ gen' = [gen EXCEPT ![p] = [GenIdle EXCEPT !.pc = "wait_lock", !.date = d,
                                                   !.payload = nGen + 1]]
    /\ dbReady' = (dbReady \/ p = 1)
    /\ UNCHANGED <<ledger, lockHolder, snd, wr, emailEnabled, nRuns, hist>>
    /\ UNCHANGED pipelineVars

\* session = get_session() runs init_database on first use, which raises e
GenInitFail(p, e) ==
    /\ gen[p].pc = "idle"
    /\ p = 1
    /\ SchedulerThreadFree
    /\ ~dbReady
    /\ nGen < MaxGen
    /\ gen' = [gen EXCEPT ![p] = GenEnd("raised")]
    /\ UNCHANGED <<ledger, lockHolder, snd, wr, dbReady, emailEnabled, nGen, nRuns, hist>>
    /\ UNCHANGED pipelineVars

LockAcquirableAlways(p) == TRUE

\* FileLock.acquire succeeds only while no other process holds the lock
LockAcquirable(p) == lockHolder = None

\* with lock: (acquired)
GenAcquire(p) ==
    /\ gen[p].pc = "wait_lock"
    /\ LockAcquirable(p)
    /\ lockHolder' = p
    /\ gen' = [gen EXCEPT ![p].pc = "locked"]
    /\ UNCHANGED <<ledger, snd, wr, dbReady, emailEnabled, nGen, nRuns, hist>>
    /\ UNCHANGED pipelineVars

\* with lock: the holder kept the lock for the 10 s timeout; except Timeout: raise
GenLockTimeout(p) ==
    /\ gen[p].pc = "wait_lock"
    /\ lockHolder # None
    /\ gen' = [gen EXCEPT ![p] = GenEnd("raised")]
    /\ UNCHANGED <<ledger, lockHolder, snd, wr, dbReady, emailEnabled, nGen, nRuns, hist>>
    /\ UNCHANGED pipelineVars

\* existing_report = query.first(); update its fields, or session.add(new_report)
GenUpsert(p) ==
    /\ gen[p].pc = "locked"
    /\ gen' = [gen EXCEPT ![p].pc = "commit",
                          ![p].staged = IF ledger[gen[p].date].exists
                                        THEN "update" ELSE "insert"]
    /\ UNCHANGED <<ledger, lockHolder, snd, wr, dbReady, emailEnabled, nGen, nRuns, hist>>
    /\ UNCHANGED pipelineVars

UpsertedRowKeepSent(old, payload) ==
    [exists |-> TRUE, is_sent |-> old.is_sent, sent_at |-> old.sent_at,
     payload |-> payload]

\* the row the flushed session writes: is_sent = False, sent_at = None
UpsertedRow(old, payload) ==
    [exists |-> TRUE, is_sent |-> FALSE, sent_at |-> None, payload |-> payload]

\* session.flush(); session.commit() succeed; break; lock released; return
GenCommitOk(p) ==
    /\ gen[p].pc = "commit"
    /\ lockHolder' = None
    /\ IF gen[p].staged # "none"
       THEN /\ ledger' = [ledger EXCEPT ![gen[p].date] =
                              UpsertedRow(ledger[gen[p].date], gen[p].payload)]
            /\ hist' = HistRegenerated(hist, gen[p].date,
                                           ledger[gen[p].date].is_sent)
       ELSE UNCHANGED <<ledger, hist>>
    /\ gen' = [gen EXCEPT ![p] = GenEnd("returned")]
    /\ UNCHANGED <<snd, wr, dbReady, emailEnabled, nGen, nRuns>>
    /\ UNCHANGED pipelineVars

\* flush/commit raises e; every handler rolls the session back, which drops
\* the staged changes; only sqlite3 'database is locked' is retried
GenCommitFail(p, e) ==
    /\ gen[p].pc = "commit"
    /\ IF /\ IsSqliteOperationalError(e)
          /\ "database is locked" \in ErrorStr(e)
          /\ gen[p].retry < COMMIT_MAX_RETRIES - 1
       THEN /\ gen' = [gen EXCEPT ![p].staged = "none", ![p].retry = @ + 1]
            /\ UNCHANGED lockHolder
       ELSE /\ gen' = [gen EXCEPT ![p] = GenEnd("raised")]
            /\ lockHolder' = None
    /\ UNCHANGED <<ledger, snd, wr, dbReady, emailEnabled, nGen, nRuns, hist>>
    /\ UNCHANGED pipelineVars

\* ------------------------------------------------------------------------
\* report_generator.send_pending_daily_reports, run by the scheduler
\* process under send_pending_daily_reports_with_retry
\* ------------------------------------------------------------------------
SndIdle ==
    [pc |-> "idle", cand |-> None, logged |-> {}, emails |-> <<>>,
     caught |-> "none"]

\* errors the session raises from a SELECT, a flush or a commit
QueryErrors == {"sa_locked", "sa_diskio"}

\* the cron trigger of job daily_report_send fires: wrapper() is entered
SendJobFire ==
    /\ wr.pc \in {"idle", "done"}
    /\ snd.pc = "idle"
    /\ nRuns < MaxRuns
    /\ nRuns' = nRuns + 1
    /\ wr' = wrapper_enter(wr)
    /\ snd' = SndIdle
    /\ UNCHANGED <<ledger, lockHolder, gen, dbReady, emailEnabled, nGen, hist>>
    /\ UNCHANGED pipelineVars

\* await func(): send_pending_daily_reports starts; session = get_session()
\* is outside the try block, so an init_database error leaves the function
SendInvoke ==
    /\ wr.pc = "call"
    /\ SchedulerThreadFree
    /\ \/ /\ dbReady' = TRUE
          /\ wr' = wrapper_call(wr)
          /\ snd' = [SndIdle EXCEPT !.pc = "query"]
       \/ /\ ~dbReady
          /\ \E e \in InitErrors :
                /\ wr' = wrapper_on_raise(wrapper_call(wr), e)
                /\ snd' = SndIdle
          /\ UNCHANGED dbReady
    /\ UNCHANGED <<ledger, lockHolder, gen, emailEnabled, nGen, nRuns, hist>>
    /\ UNCHANGED pipelineVars

\* await asyncio.sleep(delay) of the wrapper is over
SendWake ==
    /\ wr.pc = "sleep"
    /\ wr' = wrapper_wake(wr)
    /\ UNCHANGED <<ledger, lockHolder, gen, snd, dbReady, emailEnabled, nGen, nRuns, hist>>
    /\ UNCHANGED pipelineVars

\* the function returns None (after finally: session.close())
SendReturns ==
    /\ snd' = SndIdle
    /\ wr' = wrapper_on_return(wr, "None")

\* an exception e reached "except Exception as e:" of the outer try, which
\* logs it and falls through to finally: the function returns None
SendOuterExcept(e) ==
    /\ snd' = [SndIdle EXCEPT !.caught = e]
    /\ wr' = wrapper_on_return(wr, "None")

\* A) latest pending report, B) backlog, C) candidate_sent, D) EMAIL_ENABLED
SendQuery ==
    /\ snd.pc = "query"
    /\ LET latest == latest_pending_report(ledger)
           backlog == IF latest = None THEN {}
                      ELSE backlog_reports(ledger, latest)
           s1 == [snd EXCEPT !.cand = latest, !.logged = backlog]
       IN IF latest = None
          THEN SendReturns /\ UNCHANGED hist
          ELSE /\ hist' = [hist EXCEPT !.backlog = @ \cup backlog]
               /\ IF ledger[latest].is_sent \/ ~emailEnabled
                  THEN SendReturns
                  ELSE snd' = [s1 EXCEPT !.pc = "email"] /\ UNCHANGED wr
    /\ UNCHANGED <<ledger, lockHolder, gen, dbReady, emailEnabled, nGen, nRuns>>
    /\ UNCHANGED pipelineVars

\* one of the two queries raises e
SendQueryFail(e) ==
    /\ snd.pc = "query"
    /\ SendOuterExcept(e)
    /\ UNCHANGED <<ledger, lockHolder, gen, dbReady, emailEnabled, nGen, nRuns, hist>>
    /\ UNCHANGED pipelineVars

\* E) success = send_html_email(...) / send_email(...): True
SendEmailOk ==
    /\ snd.pc = "email"
    /\ snd' = [snd EXCEPT !.pc = "commit", !.emails = Append(@, snd.cand)]
    /\ hist' = [hist EXCEPT !.failed = @ \ {snd.cand}]
    /\ UNCHANGED <<ledger, lockHolder, gen, wr, dbReady, emailEnabled, nGen, nRuns>>
    /\ UNCHANGED pipelineVars

MarkSentForgetFlag(row, now) == [row EXCEPT !.sent_at = now]

\* latest_pending_report.is_sent = True; .sent_at = datetime.utcnow()
MarkSent(row, now) == [row EXCEPT !.is_sent = TRUE, !.sent_at = now]

\* datetime.utcnow(): some instant, never None
UtcNow == 1

row_after_send_always(success, row) == MarkSent(row, UtcNow)

\* F) if success: mark the row sent; else: leave it as it is
row_after_send(success, row) ==
    IF success THEN MarkSent(row, UtcNow) ELSE row

\* success is False: only the send_failed log line, then return
SendEmailFalse ==
    /\ snd.pc = "email"
    /\ ledger' = [ledger EXCEPT ![snd.cand] = row_after_send(FALSE, @)]
    /\ SendReturns
    /\ hist' = [hist EXCEPT !.failed = @ \cup {snd.cand}]
    /\ UNCHANGED <<lockHolder, gen, dbReady, emailEnabled, nGen, nRuns>>
    /\ UNCHANGED pipelineVars

\* the send call itself raises: except Exception as send_err: raise
SendEmailRaises ==
    /\ snd.pc = "email"
    /\ SendOuterExcept("runtime")
    /\ UNCHANGED <<ledger, lockHolder, gen, dbReady, emailEnabled, nGen, nRuns, hist>>
    /\ UNCHANGED pipelineVars

\* F) flush and commit succeed
SendCommitOk ==
    /\ snd.pc = "commit"
    /\ ledger' = [ledger EXCEPT ![snd.cand] = row_after_send(TRUE, @)]
    /\ hist' = [hist EXCEPT !.sent = @ \cup {snd.cand}]
    /\ SendReturns
    /\ UNCHANGED <<lockHolder, gen, dbReady, emailEnabled, nGen, nRuns>>
    /\ UNCHANGED pipelineVars

\* F) flush or commit raises e: session.rollback(); raise; the middle
\* handler re-raises; the outer handler catches
SendCommitFail(e) ==
    /\ snd.pc = "commit"
    /\ SendOuterExcept(e)
    /\ UNCHANGED <<ledger, lockHolder, gen, dbReady, emailEnabled, nGen, nRuns, hist>>
    /\ UNCHANGED pipelineVars

\* the storage session of a generate_daily_report run: opened by
\* session = get_session() before the window queries, closed by
\* session.close() right before the return and in the except branch
gen_session_open(g) == g.pc # "idle"

\* the storage session of a send_pending_daily_reports run: opened by
\* session = get_session() as its first statement, closed in finally
snd_session_open(s) == s.pc # "idle"

\* ------------------------------------------------------------------------
\* The service: generate runs of both processes and the scheduled send-check
\* ------------------------------------------------------------------------
HistInit ==
    [backlog |-> {}, sent |-> {}, failed |-> {}, regen |-> {},
     calls |-> 0, slept |-> <<>>, log |-> <<>>, ret |-> "none"]

\* the ledger side at rest
LedgerIdle ==
    /\ ledger = [d \in Dates |-> NoRow]
    /\ lockHolder = None
    /\ gen = [p \in Procs |-> GenIdle]
    /\ snd = SndIdle
    /\ wr = WrapperIdle(SCHED_MAX_RETRIES, SCHED_INITIAL_DELAY)
    /\ dbReady = FALSE
    /\ nGen = 0
    /\ nRuns = 0
    /\ hist = HistInit

Init ==
    /\ ledger = [d \in Dates |-> NoRow]
    /\ lockHolder = None
    /\ gen = [p \in Procs |-> GenIdle]
    /\ snd = SndIdle
    /\ wr = WrapperIdle(SCHED_MAX_RETRIES, SCHED_INITIAL_DELAY)
    /\ dbReady = FALSE
    /\ emailEnabled \in BOOLEAN
    /\ nGen = 0
    /\ nRuns = 0
    /\ hist = HistInit
    /\ PipelineIdle

Next ==
    \/ \E p \in Procs, d \in Dates : GenStart(p, d)
    \/ \E p \in Procs, e \in InitErrors : GenInitFail(p, e)
    \/ \E p \in Procs : GenAcquire(p)
    \/ \E p \in Procs : GenLockTimeout(p)
    \/ \E p \in Procs : GenUpsert(p)
    \/ \E p \in Procs : GenCommitOk(p)
    \/ \E p \in Procs, e \in CommitErrors : GenCommitFail(p, e)
    \/ SendJobFire
    \/ SendInvoke
    \/ SendWake
    \/ SendQuery
    \/ \E e \in QueryErrors : SendQueryFail(e)
    \/ SendEmailOk
    \/ SendEmailFalse
    \/ SendEmailRaises
    \/ SendCommitOk
    \/ \E e \in QueryErrors : SendCommitFail(e)

Spec == Init /\ [][Next]_vars

\* ------------------------------------------------------------------------
\* retry_on_db_lock around an arbitrary job: every attempt of the job
\* returns a value or raises an exception of any class
\* ------------------------------------------------------------------------
RetryDelays == {1, SCHED_INITIAL_DELAY}
JobValues == {"report", "None"}

InitRetry ==
    /\ ledger = [d \in Dates |-> NoRow]
    /\ lockHolder = None
    /\ gen = [p \in Procs |-> GenIdle]
    /\ snd = SndIdle
    /\ wr \in {WrapperIdle(mr, d) : mr \in 1..MaxRetriesArg, d \in RetryDelays}
    /\ dbReady = FALSE
    /\ emailEnabled = FALSE
    /\ nGen = 0
    /\ nRuns = 0
    /\ hist = HistInit
    /\ PipelineIdle

\* the decorated coroutine is awaited
RetryEnter ==
    /\ wr.pc = "idle"
    /\ wr' = wrapper_enter(wr)
    /\ UNCHANGED <<ledger, lockHolder, gen, snd, dbReady, emailEnabled, nGen, nRuns, hist>>
    /\ UNCHANGED pipelineVars

\* await func(*args, **kwargs)
RetryCall ==
    /\ wr.pc = "call"
    /\ wr' = wrapper_call(wr)
    /\ hist' = [hist EXCEPT !.calls = @ + 1]
    /\ UNCHANGED <<ledger, lockHolder, gen, snd, dbReady, emailEnabled, nGen, nRuns>>
    /\ UNCHANGED pipelineVars

JobReturns(v) ==
    /\ wr.pc = "running"
    /\ wr' = wrapper_on_return(wr, v)
    /\ hist' = [hist EXCEPT !.log = Append(@, "ok"), !.ret = v]
    /\ UNCHANGED <<ledger, lockHolder, gen, snd, dbReady, emailEnabled, nGen, nRuns>>
    /\ UNCHANGED pipelineVars

JobRaises(e) ==
    /\ wr.pc = "running"
    /\ wr' = wrapper_on_raise(wr, e)
    /\ hist' = [hist EXCEPT !.log = Append(@, e)]
    /\ UNCHANGED <<ledger, lockHolder, gen, snd, dbReady, emailEnabled, nGen, nRuns>>
    /\ UNCHANGED pipelineVars

\* asyncio.sleep(delay) was awaited with the current delay
RetryWake ==
    /\ wr.pc = "sleep"
    /\ wr' = wrapper_wake(wr)
    /\ hist' = [hist EXCEPT !.slept = Append(@, wr.delay)]
    /\ UNCHANGED <<ledger, lockHolder, gen, snd, dbReady, emailEnabled, nGen, nRuns>>
    /\ UNCHANGED pipelineVars

NextRetry ==
    \/ RetryEnter
    \/ RetryCall
    \/ \E v \in JobValues : JobReturns(v)
    \/ \E e \in ErrKinds : JobRaises(e)
    \/ RetryWake

SpecRetry == InitRetry /\ [][NextRetry]_vars

\* ------------------------------------------------------------------------
\* Storage health gate: database.init_database and ensure_database_health.
\* Every start of a process calls init_database once.
\* ------------------------------------------------------------------------
\* what the file at db_path is: missing, a sound database, a database whose
\* integrity_check lists damage, or bytes that sqlite refuses to read
FileKinds == {"absent", "ok", "bad_pages", "not_a_db"}
CorruptKinds == {"bad_pages", "not_a_db"}

\* init_database: db_path = get_db_path(test); ensure_database_health(db_path)
InitDatabaseCall ==
    /\ hg.pc \in {"idle", "done"}
    /\ nInit < MaxInits
    /\ nInit' = nInit + 1
    /\ hg' = [HgIdle EXCEPT !.pc = "gate", !.seen = dbFile]
    /\ UNCHANGED <<dbFile, backups, clock>>
    /\ UNCHANGED <<ledgerVars, emailEnabled, alertVars, feedVars>>

\* if not os.path.exists(db_path): return True
GateNewDb ==
    /\ hg.pc = "gate"
    /\ dbFile = "absent"
    /\ hg' = [hg EXCEPT !.pc = "init", !.how = "new_db", !.gate = "true"]
    /\ UNCHANGED <<dbFile, backups, clock, nInit>>
    /\ UNCHANGED <<ledgerVars, emailEnabled, alertVars, feedVars>>

\* connect or execute raises sqlite3.OperationalError (the file is locked or
\* cannot be opened): except sqlite3.OperationalError returns False
GateAccessError ==
    /\ hg.pc = "gate"
    /\ dbFile # "absent"
    /\ hg' = [hg EXCEPT !.pc = "init", !.how = "access_error", !.gate = "false"]
    /\ UNCHANGED <<dbFile, backups, clock, nInit>>
    /\ UNCHANGED <<ledgerVars, emailEnabled, alertVars, feedVars>>

\* PRAGMA integrity_check answers 'ok': return True
GateIntegrityOk ==
    /\ hg.pc = "gate"
    /\ dbFile = "ok"
    /\ hg' = [hg EXCEPT !.pc = "init", !.how = "integrity_ok", !.gate = "true"]
    /\ UNCHANGED <<dbFile, backups, clock, nInit>>
    /\ UNCHANGED <<ledgerVars, emailEnabled, alertVars, feedVars>>

\* PRAGMA integrity_check answers anything else: corrupt_detected is logged,
\* the connection is closed and timestamp = datetime.now() names the backup
GateCorruptDetected ==
    /\ hg.pc = "gate"
    /\ dbFile = "bad_pages"
    /\ \E t \in clock..MaxClock :
          /\ clock' = t
          /\ hg' = [hg EXCEPT !.pc = "backup", !.how = "integrity", !.stamp = t]
    /\ UNCHANGED <<dbFile, backups, nInit>>
    /\ UNCHANGED <<ledgerVars, emailEnabled, alertVars, feedVars>>

\* shutil.copy2(db_path, backup_path) succeeds; RuntimeError('... manual
\* recovery required ...') is raised and re-raised by except Exception
GateBackupOk ==
    /\ hg.pc = "backup"
    /\ backups' = backups \cup {hg.stamp}
    /\ hg' = [hg EXCEPT !.pc = "init", !.gate = "raised"]
    /\ UNCHANGED <<dbFile, clock, nInit>>
    /\ UNCHANGED <<ledgerVars, emailEnabled, alertVars, feedVars>>

\* shutil.copy2 raises (disk full, no permission): except Exception sees no
\* RuntimeError, logs health_check_error and returns False
GateBackupFails ==
    /\ hg.pc = "backup"
    /\ hg' = [hg EXCEPT !.pc = "init", !.gate = "false"]
    /\ UNCHANGED <<dbFile, backups, clock, nInit>>
    /\ UNCHANGED <<ledgerVars, emailEnabled, alertVars, feedVars>>

\* execute raises sqlite3.DatabaseError ('file is not a database', 'database
\* disk image is malformed'), which is no OperationalError: except Exception
\* logs health_check_error and returns False
GateDatabaseError ==
    /\ hg.pc = "gate"
    /\ dbFile \in CorruptKinds
    /\ hg' = [hg EXCEPT !.pc = "init", !.how = "database_error",
                        !.gate = "false"]
    /\ UNCHANGED <<dbFile, backups, clock, nInit>>
    /\ UNCHANGED <<ledgerVars, emailEnabled, alertVars, feedVars>>

\* the gate answered False: init_database raises RuntimeError(init_failed);
\* the gate raised: its RuntimeError leaves init_database
InitRefuse ==
    /\ hg.pc = "init"
    /\ hg.gate \in {"false", "raised"}
    /\ hg' = [hg EXCEPT !.pc = "done", !.init = "raised"]
    /\ UNCHANGED <<dbFile, backups, clock, nInit>>
    /\ UNCHANGED <<ledgerVars, emailEnabled, alertVars, feedVars>>

\* the gate answered True: create_engine, Base.metadata.create_all (which
\* creates a missing file), PRAGMA journal_mode, sessionmaker
InitProceed ==
    /\ hg.pc = "init"
    /\ hg.gate = "true"
    /\ dbFile' = IF dbFile = "absent" THEN "ok" ELSE dbFile
    /\ hg' = [hg EXCEPT !.pc = "done", !.init = "engine"]
    /\ UNCHANGED <<backups, clock, nInit>>
    /\ UNCHANGED <<ledgerVars, emailEnabled, alertVars, feedVars>>

InitHealth ==
    /\ LedgerIdle
    /\ emailEnabled = FALSE
    /\ AlertIdle
    /\ FeedIdle
    /\ dbFile \in FileKinds
    /\ clock \in 0..MaxClock
    /\ backups \in SUBSET (0..clock)
    /\ hg = HgIdle
    /\ nInit = 0

NextHealth ==
    \/ InitDatabaseCall
    \/ GateNewDb
    \/ GateAccessError
    \/ GateIntegrityOk
    \/ GateCorruptDetected
    \/ GateBackupOk
    \/ GateBackupFails
    \/ GateDatabaseError
    \/ InitRefuse
    \/ InitProceed

SpecHealth == InitHealth /\ [][NextHealth]_vars

\* ------------------------------------------------------------------------
\* Message texts.  A text is a sequence of lines; a line is known by the
\* pieces that the regular expressions of parse_block_trade_message look
\* for; a numeric token is the sequence of its characters and a contract
\* name the sequence of its '-'-separated segments.  Numbers are held in
\* hundredths (float('614.20') is 61420); the tokens explored carry at most
\* two decimals.
\* ------------------------------------------------------------------------
Digit == {"0", "1", "2", "3", "4", "5", "6", "7", "8", "9"}
DigitDot == Digit \cup {"."}                     \* [\d.]
DigitCommaDot == Digit \cup {",", "."}           \* [0-9,.]  [\d,.]
SuffixChars == {"K", "M", "B"}

DigitVal(c) ==
    CASE c = "0" -> 0 [] c = "1" -> 1 [] c = "2" -> 2 [] c = "3" -> 3
      [] c = "4" -> 4 [] c = "5" -> 5 [] c = "6" -> 6 [] c = "7" -> 7
      [] c = "8" -> 8 [] c = "9" -> 9

\* the group (cls+) matches the token as a whole
MatchesClass(tok, cls) ==
    Len(tok) > 0 /\ \A i \in 1..Len(tok) : tok[i] \in cls

\* the group (cls+) with nothing required after it matches the longest
\* prefix of the token made of cls
LongestPrefix(tok, cls) ==
    LET K == {k \in 0..Len(tok) : \A i \in 1..k : tok[i] \in cls}
    IN SubSeq(tok, 1, CHOOSE k \in K : \A j \in K : j <= k)

\* s.replace(',', '').replace('$', '')
StripCommas(tok) == SelectSeq(tok, LAMBDA c : c \notin {",", "$"})

RECURSIVE DigitsValue(_)
DigitsValue(ds) ==
    IF ds = <<>> THEN 0
    ELSE 10 * DigitsValue(SubSeq(ds, 1, Len(ds) - 1)) + DigitVal(ds[Len(ds)])

\* float(s) returns: s is digits with at most one '.', and has a digit;
\* otherwise float(s) raises ValueError
FloatOk(tok) ==
    /\ \A i \in 1..Len(tok) : tok[i] \in DigitDot
    /\ Cardinality({i \in 1..Len(tok) : tok[i] = "."}) <= 1
    /\ \E i \in 1..Len(tok) : tok[i] \in Digit

\* float(s), in hundredths
FloatValue(tok) ==
    LET dots == {i \in 1..Len(tok) : tok[i] = "."}
        p == IF dots = {} THEN Len(tok) + 1 ELSE CHOOSE i \in dots : TRUE
        fp == SubSeq(tok, p + 1, Len(tok))
        f1 == IF Len(fp) >= 1 THEN DigitVal(fp[1]) ELSE 0
        f2 == IF Len(fp) >= 2 THEN DigitVal(fp[2]) ELSE 0
    IN 100 * DigitsValue(SubSeq(tok, 1, p - 1)) + 10 * f1 + f2

\* parse_amount_with_suffix: commas and '$' dropped, a final K/M/B is the
\* multiplier, float() inside try: None when it raises
parse_amount_with_suffix(tok) ==
    LET s == StripCommas(tok)
        last == IF s = <<>> THEN "" ELSE s[Len(s)]
        mult == CASE last = "K" -> 1000
                  [] last = "M" -> 1000000
                  [] last = "B" -> 1000000000
                  [] OTHER -> 1
        body == IF last \in SuffixChars THEN SubSeq(s, 1, Len(s) - 1) ELSE s
    IN IF FloatOk(body) THEN Some(FloatValue(body) * mult) ELSE Absent

\* the lines explored, by name.  A line is the pieces that the regular
\* expressions look for: start '<side> <vol>x ... <contract>', price
\* 'at <native> <unit> ($<usd>)', total 'Total <side>: <native> <unit>
\* ($<usd>)', iv, ref, quote 'bid: mark: ask:', and its other words
SampleLines ==
    LET Blank == [start |-> Absent, price |-> Absent, total |-> Absent,
                  iv |-> Absent, ref |-> Absent, quote |-> Absent,
                  words |-> {}]
        Start(side, vol, contract) ==
            Some([side |-> side, vol |-> vol, contract |-> contract])
        Money(native, unit, usd) ==
            Some([native |-> native, unit |-> unit, usd |-> usd])
        OptC == <<"BTC", "19DEC25", "91000", "C">>
        OptP == <<"BTC", "27FEB26", "80000", "P">>
    IN [
         \* Bought 250.0x BTC-19DEC25-91000-C at 0.02 B ($2,456.78)
         LegA |->
             [Blank EXCEPT
                !.start = Start("Bought", <<"2", "5", "0", ".", "0">>, OptC),
                !.price = Money(<<"0", ".", "0", "2">>, "btc",
                                <<"2", ",", "4", "5", "6", ".", "7", "8">>)],
         \* Total Bought: 58.50 B ($614.20K), **IV**: 52.34%, **Ref**: $87232.15
         DetailB |->
             [Blank EXCEPT
                !.total = Money(<<"5", "8", ".", "5", "0">>, "btc",
                                <<"6", "1", "4", ".", "2", "0", "K">>),
                !.iv = Some(<<"5", "2", ".", "3", "4">>),
                !.ref = Some(<<"8", "7", "2", "3", "2", ".", "1", "5">>)],
         \* Sold 100x BTC-27FEB26-80000-P at 0.04 B ($3,716.30) Total Sold: 9.60 B
         \* ($1.20M), IV: 46.71%, Ref: $87,032.71
         LegC |->
             [Blank EXCEPT
                !.start = Start("Sold", <<"1", "0", "0">>, OptP),
                !.price = Money(<<"0", ".", "0", "4">>, "btc",
                                <<"3", ",", "7", "1", "6", ".", "3", "0">>),
                !.total = Money(<<"9", ".", "6", "0">>, "btc",
                                <<"1", ".", "2", "0", "M">>),
                !.iv = Some(<<"4", "6", ".", "7", "1">>),
                !.ref = Some(<<"8", "7", ",", "0", "3", "2", ".", "7", "1">>)],
         \* Bought 50x BTC-19DEC25-91000-C Total Bought: 1.00 B ($100.00K)
         LegD |->
             [Blank EXCEPT
                !.start = Start("Bought", <<"5", "0">>, OptC),
                !.total = Money(<<"1", ".", "0", "0">>, "btc",
                                <<"1", "0", "0", ".", "0", "0", "K">>)],
         \* Bought 20000000.0x BTC-PERPETUAL
         LegF |->
             [Blank EXCEPT
                !.start = Start("Bought",
                                <<"2", "0", "0", "0", "0", "0", "0", "0", ".", "0">>,
                                <<"BTC", "PERPETUAL">>)],
         \* Bought 1.2.3x BTC-19DEC25-91000-C
         LegG |->
             [Blank EXCEPT
                !.start = Start("Bought", <<"1", ".", "2", ".", "3">>, OptC)],
         \* Sold 100x BTC-PERP-91000-C
         LegI |->
             [Blank EXCEPT
                !.start = Start("Sold", <<"1", "0", "0">>,
                                <<"BTC", "PERP", "91000", "C">>)],
         \* Bought 1000x ETH-27MAR26-3000-C at 0.05 E ($150.00) Total Bought: 50.00 E
         \* ($150.00K)
         LegJ |->
             [Blank EXCEPT
                !.start = Start("Bought", <<"1", "0", "0", "0">>,
                                <<"ETH", "27MAR26", "3000", "C">>),
                !.price = Money(<<"0", ".", "0", "5">>, "eth",
                                <<"1", "5", "0", ".", "0", "0">>),
                !.total = Money(<<"5", "0", ".", "0", "0">>, "eth",
                                <<"1", "5", "0", ".", "0", "0", "K">>)],
         \* Sold 4001x ETH-27MAR26-3000-P
         LegK |->
             [Blank EXCEPT
                !.start = Start("Sold", <<"4", "0", "0", "1">>,
                                <<"ETH", "27MAR26", "3000", "P">>)],
         \* Bought 100x BTC-27MAR26
         LegN |->
             [Blank EXCEPT
                !.start = Start("Bought", <<"1", "0", "0">>, <<"BTC", "27MAR26">>)],
         \* bid: 0.04 (size: 78.0), mark: 0.04, ask: 0.04 (size: 20.0)
         QuoteQ |->
             [Blank EXCEPT
                !.quote = Some([bid |-> <<"0", ".", "0", "4">>,
                                bid_size |-> Some(<<"7", "8", ".", "0">>),
                                mark |-> <<"0", ".", "0", "4">>,
                                ask |-> <<"0", ".", "0", "4">>,
                                ask_size |-> Some(<<"2", "0", ".", "0">>)])]]

BodyLines == {SampleLines[k] : k \in DOMAIN SampleLines}

\* the texts explored: up to MaxLines body lines, then the tag line
\* '__<exchange>__ __#block__' or none
Texts ==
    [body : UNION {[1..n -> BodyLines] : n \in 0..MaxLines},
     footer : {Absent, Some("Deribit")}]

\* text.split('\n')
TextLines(m) ==
    m.body \o (IF m.footer = Absent THEN <<>>
               ELSE <<[start |-> Absent, price |-> Absent, total |-> Absent,
                       iv |-> Absent, ref |-> Absent, quote |-> Absent,
                       words |-> {m.footer[1], "#block"}]>>)

\* ------------------------------------------------------------------------
\* report_generator.parse_block_trade_message.  Of the result dict the keys
\* asset, exchange, options_legs, non_options_legs and the derived
\* options_sum, options_max, options_count are kept: the keys that
\* send_alert_email decides on.
\* ------------------------------------------------------------------------
\* word in text
TextHasWord(lines, w) ==
    \E i \in 1..Len(lines) :
       \/ w \in lines[i].words
       \/ lines[i].start # Absent /\ lines[i].start[1].contract[1] = w

\* 1. 'BTC' in text.upper(), elif 'ETH' in text.upper()
asset_of(lines) ==
    IF TextHasWord(lines, "BTC") THEN "BTC"
    ELSE IF TextHasWord(lines, "ETH") THEN "ETH"
    ELSE "Unknown"

\* 5. the first name of the exchanges list that occurs in the text
exchange_of(lines) ==
    LET Exchanges == <<"Deribit", "OKX", "Binance", "Bybit">>
        I == {k \in 1..Len(Exchanges) : TextHasWord(lines, Exchanges[k])}
    IN IF I = {} THEN "Unknown"
       ELSE Exchanges[CHOOSE k \in I : \A j \in I : k <= j]

\* 4. and 8. of the text-wide extractions.  volume_match is the leftmost
\* (\d+\.?\d*)\s*x of the text: in a line '<side> <vol>x' the longest tail
\* of <vol> that is a simple decimal.  With no 'at X <unit> ($Y)' found and
\* result['volume'] > 0 the per-contract price is inferred from the first
\* 'Total <side>: X <unit> ($Y)': float(total.group(1).replace(',', '')) is
\* not guarded and raises ValueError on a malformed amount
head_raises(lines) ==
    LET MatchesAmount(tok) ==          \* ([0-9,.]+[KMB]?)
            /\ Len(tok) > 0
            /\ IF tok[Len(tok)] \in SuffixChars
               THEN MatchesClass(SubSeq(tok, 1, Len(tok) - 1), DigitCommaDot)
               ELSE MatchesClass(tok, DigitCommaDot)
        SimpleDecimal(tok) ==          \* (\d+\.?\d*)
            Len(tok) > 0 /\ tok[1] \in Digit /\ FloatOk(tok)
        x_match(tok) ==
            LET I == {i \in 1..Len(tok) :
                         SimpleDecimal(SubSeq(tok, i, Len(tok)))}
            IN IF I = {} THEN Absent
               ELSE Some(SubSeq(tok, CHOOSE i \in I : \A j \in I : i <= j,
                                Len(tok)))
        V == {i \in 1..Len(lines) :
                 /\ lines[i].start # Absent
                 /\ x_match(lines[i].start[1].vol) # Absent}
        volume_positive ==
            /\ V # {}
            /\ LET i == CHOOSE k \in V : \A j \in V : k <= j
               IN FloatValue(x_match(lines[i].start[1].vol)[1]) > 0
        price_found ==
            \E i \in 1..Len(lines) :
               /\ lines[i].price # Absent
               /\ MatchesClass(lines[i].price[1].native, DigitCommaDot)
               /\ MatchesAmount(lines[i].price[1].usd)
        total_native(unit) ==
            LET I == {i \in 1..Len(lines) :
                         /\ lines[i].total # Absent
                         /\ lines[i].total[1].unit = unit
                         /\ MatchesClass(lines[i].total[1].native, DigitCommaDot)
                         /\ MatchesAmount(lines[i].total[1].usd)}
            IN IF I = {} THEN Absent
               ELSE Some(lines[CHOOSE k \in I : \A j \in I : k <= j]
                            .total[1].native)
        tb == total_native("btc")
        te == total_native("eth")
    IN /\ ~price_found
       /\ volume_positive
       /\ IF tb # Absent THEN ~FloatOk(StripCommas(tb[1]))
          ELSE te # Absent /\ ~FloatOk(StripCommas(te[1]))

\* 'PERPETUAL' in contract_name.upper() or 'PERP' in contract_name.upper()
contains_perp(c) == \E i \in 1..Len(c) : c[i] \in {"PERPETUAL", "PERP"}

\* 'FUTURES' in contract_name.upper() or 'FUT' in contract_name.upper()
contains_fut(c) == \E i \in 1..Len(c) : c[i] \in {"FUTURES", "FUT"}

\* re.search(r'-\d+-[PC]$', contract_name): the segment before the last is
\* all digits and the last is P or C
ends_like_option(c) ==
    /\ Len(c) >= 3
    /\ c[Len(c) - 1] \in {"91000", "80000", "3000"}
    /\ c[Len(c)] \in {"P", "C"}

\* the if / elif chain that types a finished leg
instrument_type_of(c) ==
    IF contains_perp(c) THEN "PERPETUAL"
    ELSE IF contains_fut(c) THEN "FUTURES"
    ELSE IF ends_like_option(c) THEN "OPTIONS"
    ELSE "FUTURES"

\* a finished leg is appended to both lists
save_leg_twice(result, cur) ==
    IF cur = Absent THEN result
    ELSE LET leg == [cur[1] EXCEPT
                        !.instrument_type = instrument_type_of(cur[1].contract)]
         IN [result EXCEPT !.options_legs = Append(@, leg),
                           !.non_options_legs = Append(@, leg)]

\* if current_leg: type it and append it to options_legs or non_options_legs
save_leg(result, cur) ==
    IF cur = Absent THEN result
    ELSE LET leg == [cur[1] EXCEPT
                        !.instrument_type = instrument_type_of(cur[1].contract)]
         IN IF leg.instrument_type = "OPTIONS"
            THEN [result EXCEPT !.options_legs = Append(@, leg)]
            ELSE [result EXCEPT !.non_options_legs = Append(@, leg)]

\* leg_match: (Bought|Sold)\s+([\d.]+)x\s+.*?((BTC|ETH)-[\dA-Z-]+)
leg_match(line) ==
    /\ line.start # Absent
    /\ MatchesClass(line.start[1].vol, DigitDot)
    /\ Len(line.start[1].contract) >= 2
    /\ line.start[1].contract[1] \in {"BTC", "ETH"}

\* price_match: at\s+([\d.]+)\s*B\s*\(\$([0-9,.]+)\)
price_match(line) ==
    /\ line.price # Absent
    /\ line.price[1].unit = "btc"
    /\ MatchesClass(line.price[1].native, DigitDot)
    /\ MatchesClass(line.price[1].usd, DigitCommaDot)

\* total_match: Total\s+(?:Bought|Sold):\s+([\d.]+)\s*B\s*\(\$([0-9,.KMB]+)\)
total_match(line) ==
    /\ line.total # Absent
    /\ line.total[1].unit = "btc"
    /\ MatchesClass(line.total[1].native, DigitDot)
    /\ MatchesClass(line.total[1].usd, DigitCommaDot \cup SuffixChars)

\* iv_match: \*\*IV\*\*:\s*([\d.]+)%|IV:\s*([\d.]+)%
iv_match(line) == line.iv # Absent /\ MatchesClass(line.iv[1], DigitDot)

\* ref_match: \*\*Ref\*\*:\s*\$([0-9,.]+)|Ref:\s*\$([0-9,.]+)
ref_group(line) ==
    IF line.ref = Absent THEN <<>> ELSE LongestPrefix(line.ref[1], DigitCommaDot)

\* current_leg = {...} and the four extractions, all on the line of the
\* leg; every float() here is outside any try
new_leg(line) ==
    LET s == line.start[1]
    IN [contract |-> s.contract,
        side |-> IF s.side = "Bought" THEN "LONG" ELSE "SHORT",
        volume |-> FloatValue(s.vol),
        price_btc |-> IF price_match(line)
                      THEN Some(FloatValue(line.price[1].native)) ELSE Absent,
        price_usd |-> IF price_match(line)
                      THEN parse_amount_with_suffix(line.price[1].usd)
                      ELSE Absent,
        total_btc |-> IF total_match(line)
                      THEN Some(FloatValue(line.total[1].native)) ELSE Absent,
        total_usd |-> IF total_match(line)
                      THEN parse_amount_with_suffix(line.total[1].usd)
                      ELSE Absent,
        iv |-> IF iv_match(line) THEN Some(FloatValue(line.iv[1])) ELSE Absent,
        ref_spot_usd |-> IF ref_group(line) # <<>>
                         THEN Some(FloatValue(StripCommas(ref_group(line))))
                         ELSE Absent,
        bid |-> Absent, bid_size |-> Absent, mark |-> Absent,
        ask |-> Absent, ask_size |-> Absent,
        instrument_type |-> ""]

new_leg_raises(line) ==
    \/ ~FloatOk(line.start[1].vol)
    \/ price_match(line) /\ ~FloatOk(line.price[1].native)
    \/ total_match(line) /\ ~FloatOk(line.total[1].native)
    \/ iv_match(line) /\ ~FloatOk(line.iv[1])
    \/ ref_group(line) # <<>> /\ ~FloatOk(StripCommas(ref_group(line)))

\* elif current_leg and the line holds bid ... mark ... ask: each group
\* ([\d.]+) that matches sets its field to the float of the match
quote_leg(leg, q) ==
    LET Group(tok) == LongestPrefix(tok, DigitDot)
        Field(old, tok) ==
            IF Group(tok) = <<>> THEN old ELSE Some(FloatValue(Group(tok)))
        Size(old, main, size) ==
            IF Group(main) = <<>> \/ size = Absent \/ Group(size[1]) = <<>>
            THEN old ELSE Some(FloatValue(Group(size[1])))
    IN [leg EXCEPT !.bid = Field(@, q.bid),
                   !.bid_size = Size(@, q.bid, q.bid_size),
                   !.mark = Field(@, q.mark),
                   !.ask = Field(@, q.ask),
                   !.ask_size = Size(@, q.ask, q.ask_size)]

\* one of the unguarded float() calls of the quote branch raises
quote_raises(q) ==
    LET Group(tok) == LongestPrefix(tok, DigitDot)
        Raises(tok) == Group(tok) # <<>> /\ ~FloatOk(Group(tok))
    IN \/ Raises(q.bid) \/ Raises(q.mark) \/ Raises(q.ask)
       \/ q.bid_size # Absent /\ Group(q.bid) # <<>> /\ Raises(q.bid_size[1])
       \/ q.ask_size # Absent /\ Group(q.ask) # <<>> /\ Raises(q.ask_size[1])

\* one pass of 'for line in lines'
leg_step(st, line) ==
    IF leg_match(line)
    THEN IF new_leg_raises(line) THEN [PsIdle EXCEPT !.pc = "raised"]
         ELSE [st EXCEPT !.result = save_leg(st.result, st.cur),
                         !.cur = Some(new_leg(line)),
                         !.i = @ + 1]
    ELSE IF st.cur # Absent /\ line.quote # Absent
    THEN IF quote_raises(line.quote[1]) THEN [PsIdle EXCEPT !.pc = "raised"]
         ELSE [st EXCEPT !.cur = Some(quote_leg(st.cur[1], line.quote[1])),
                         !.i = @ + 1]
    ELSE [st EXCEPT !.i = @ + 1]

RECURSIVE SumVolume(_)
SumVolume(legs) ==
    IF legs = <<>> THEN 0
    ELSE legs[1].volume + SumVolume(SubSeq(legs, 2, Len(legs)))

MaxVolume(legs) ==
    IF legs = <<>> THEN 0
    ELSE LET V == {legs[i].volume : i \in 1..Len(legs)}
         IN CHOOSE v \in V : \A w \in V : w <= v

\* after the loop: the last leg is saved and the derived keys are added
finish(st) ==
    LET r == save_leg(st.result, st.cur)
    IN [pc |-> "parsed", i |-> 0, cur |-> Absent,
        result |-> [asset |-> r.asset, exchange |-> r.exchange,
                    options_legs |-> r.options_legs,
                    non_options_legs |-> r.non_options_legs,
                    options_sum |-> SumVolume(r.options_legs),
                    options_max |-> MaxVolume(r.options_legs),
                    options_count |-> Len(r.options_legs)]]

\* everything before the loop: 'if not text: return result', else the
\* text-wide extractions
head(m) ==
    LET lines == TextLines(m)
    IN IF lines = <<>> THEN [PsIdle EXCEPT !.pc = "parsed"]
       ELSE IF head_raises(lines) THEN [PsIdle EXCEPT !.pc = "raised"]
       ELSE [pc |-> "lines", i |-> 1, cur |-> Absent,
             result |-> [NewResult EXCEPT !.asset = asset_of(lines),
                                          !.exchange = exchange_of(lines)]]

\* the function as a whole
RECURSIVE run_lines(_, _)
run_lines(st, lines) ==
    IF st.pc # "lines" THEN st
    ELSE IF st.i > Len(lines) THEN finish(st)
    ELSE run_lines(leg_step(st, lines[st.i]), lines)

parse_block_trade_message(m) == run_lines(head(m), TextLines(m))

\* ------------------------------------------------------------------------
\* message_listener.send_alert_email
\* ------------------------------------------------------------------------
\* trade_info.get(key, default)
trade_get(t, key, default) == IF key \in DOMAIN t THEN t[key] ELSE default

\* the exchange guard lets every exchange pass
exchange_monitored_any(exchange) == TRUE

\* not (exchange != config.MONITORED_EXCHANGE)
exchange_monitored(exchange) == exchange = MONITORED_EXCHANGE

\* the threshold of the asset; None for an asset other than BTC and ETH
volume_threshold(asset, test_mode) ==
    IF asset = "BTC" THEN Some(BTC_VOLUME_THRESHOLD)
    ELSE IF asset = "ETH"
    THEN IF test_mode THEN Some(ETH_VOLUME_THRESHOLD_TEST)
         ELSE Some(ETH_VOLUME_THRESHOLD)
    ELSE Absent

\* the volume rule fires at the threshold too
volume_trigger_ge(options_sum, threshold) == options_sum >= 100 * threshold

\* volume_trigger = options_sum > threshold
volume_trigger(options_sum, threshold) == options_sum > 100 * threshold

\* premium_trigger: False, or abs_net_premium_usd >= premium_threshold_usd
\* when abs_net_premium_usd is not None
premium_trigger(abs_net_premium_usd) ==
    /\ abs_net_premium_usd # Absent
    /\ abs_net_premium_usd[1] >= 100 * PREMIUM_THRESHOLD_USD

AlSkip(why) == [AlIdle EXCEPT !.pc = "done", !.outcome = why]

\* from 'trade_info = parse_block_trade_message(raw_text)' to the e-mail:
\* the guards, the two rules and the reasons; outcome 'send' stands for the
\* call of send_single_trade_alert_html
alert_decision(test_mode, trade) ==
    LET options_legs == trade_get(trade, "options_legs", <<>>)
        options_sum == trade_get(trade, "options_sum", 0)
        options_count == trade_get(trade, "options_count", 0)
        asset == trade_get(trade, "asset", "Unknown")
        exchange == trade_get(trade, "exchange", "Unknown")
        threshold == volume_threshold(asset, test_mode)
        abs_net == trade_get(trade, "abs_net_premium_usd", Absent)
    IN IF options_legs = <<>> \/ options_count = 0
       THEN AlSkip("skip_no_option_legs")
       ELSE IF ~exchange_monitored(exchange)
       THEN AlSkip("skip_wrong_exchange")
       ELSE IF threshold = Absent
       THEN AlSkip("skip_unknown_asset")
       ELSE LET vt == volume_trigger(options_sum, threshold[1])
                pt == premium_trigger(abs_net)
            IN IF ~(vt \/ pt)
               THEN [AlSkip("skip_both_below_threshold")
                        EXCEPT !.threshold = threshold]
               ELSE [pc |-> "done", outcome |-> "send",
                     reasons |-> (IF vt THEN {"volume"} ELSE {})
                                    \cup (IF pt THEN {"premium"} ELSE {}),
                     threshold |-> threshold, emails |-> 0]

\* send_single_trade_alert_html returns True (the e-mail left), returns
\* False, or raises into 'except Exception' of send_alert_email
SendOutcomes == {"sent", "send_failed", "failed"}

after_send(d, how) ==
    IF d.outcome # "send" THEN d
    ELSE [d EXCEPT !.outcome = how,
                   !.emails = IF how = "sent" THEN 1 ELSE 0]

\* send_alert_email is awaited: the two configuration guards, then the
\* parser is called
AlertEnter ==
    /\ al.pc = "idle"
    /\ IF ~alertCfg.volume_alert_enabled
       THEN al' = AlSkip("skip_volume_alert_disabled") /\ UNCHANGED ps
       ELSE IF ~emailEnabled
       THEN al' = AlSkip("skip_email_disabled") /\ UNCHANGED ps
       ELSE al' = [al EXCEPT !.pc = "parsing"] /\ ps' = [ps EXCEPT !.pc = "head"]
    /\ UNCHANGED <<msg, alertCfg>>
    /\ UNCHANGED <<ledgerVars, emailEnabled, healthVars, feedVars>>

\* parse_block_trade_message up to 'lines = text.split(...)'
ParseHead ==
    /\ ps.pc = "head"
    /\ ps' = head(msg)
    /\ UNCHANGED <<msg, alertCfg, al>>
    /\ UNCHANGED <<ledgerVars, emailEnabled, healthVars, feedVars>>

\* one line of the loop
ParseLine ==
    /\ ps.pc = "lines"
    /\ ps.i <= Len(TextLines(msg))
    /\ ps' = leg_step(ps, TextLines(msg)[ps.i])
    /\ UNCHANGED <<msg, alertCfg, al>>
    /\ UNCHANGED <<ledgerVars, emailEnabled, healthVars, feedVars>>

\* the loop is over: last leg, derived keys, return result
ParseTail ==
    /\ ps.pc = "lines"
    /\ ps.i > Len(TextLines(msg))
    /\ ps' = finish(ps)
    /\ UNCHANGED <<msg, alertCfg, al>>
    /\ UNCHANGED <<ledgerVars, emailEnabled, healthVars, feedVars>>

\* the parser returned: decide and, when a rule fired, send one e-mail
AlertDecide(how) ==
    /\ al.pc = "parsing"
    /\ ps.pc = "parsed"
    /\ al' = after_send(alert_decision(alertCfg.alert_test_mode, ps.result), how)
    /\ UNCHANGED <<msg, alertCfg, ps>>
    /\ UNCHANGED <<ledgerVars, emailEnabled, healthVars, feedVars>>

\* the parser raised: 'except Exception' logs alert_failed
AlertExcept ==
    /\ al.pc = "parsing"
    /\ ps.pc = "raised"
    /\ al' = AlSkip("failed")
    /\ UNCHANGED <<msg, alertCfg, ps>>
    /\ UNCHANGED <<ledgerVars, emailEnabled, healthVars, feedVars>>

\* the settings explored: production, test mode, alerts off, e-mail off
AlertSettings ==
    {<<TRUE, FALSE, TRUE>>, <<TRUE, TRUE, TRUE>>,
     <<FALSE, FALSE, TRUE>>, <<TRUE, FALSE, FALSE>>}

InitAlert ==
    /\ LedgerIdle
    /\ HealthIdle
    /\ FeedIdle
    /\ msg \in Texts
    /\ \E s \in AlertSettings :
          /\ alertCfg = [volume_alert_enabled |-> s[1], alert_test_mode |-> s[2]]
          /\ emailEnabled = s[3]
    /\ ps = PsIdle
    /\ al = AlIdle

NextAlert ==
    \/ AlertEnter
    \/ ParseHead
    \/ ParseLine
    \/ ParseTail
    \/ \E how \in SendOutcomes : AlertDecide(how)
    \/ AlertExcept

SpecAlert == InitAlert /\ [][NextAlert]_vars

\* ------------------------------------------------------------------------
\* MessageListener.handle_new_message over a feed of NewMessage events.
\* The handler awaits only trigger_alert and send_alert_email, which never
\* suspend, so one event is handled in one step.
\* ------------------------------------------------------------------------
\* the texts of the feed: a volume alert, a trade that is large by volume
\* and by net premium, one that is large by net premium only, a PERPETUAL
\* trade, a malformed leg, and a message without the block-trade tag
FeedTexts ==
    LET L == SampleLines
        Deribit == Some("Deribit")
    IN {[body |-> <<L.LegA, L.DetailB>>, footer |-> Deribit],
        [body |-> <<L.LegC, L.LegD, L.LegC>>, footer |-> Deribit],
        [body |-> <<L.LegC, L.LegD>>, footer |-> Deribit],
        [body |-> <<L.LegF>>, footer |-> Deribit],
        [body |-> <<L.LegG>>, footer |-> Deribit],
        [body |-> <<L.LegA>>, footer |-> Absent]}

\* is_block_trade = config.BLOCK_TRADE_TAG in message_text
is_block_trade(m) ==
    \E i \in 1..Len(TextLines(m)) : "#block" \in TextLines(m)[i].words

\* send_alert_email(message_data) from entry to return
send_alert_email(m, how) ==
    IF ~alertCfg.volume_alert_enabled THEN AlSkip("skip_volume_alert_disabled")
    ELSE IF ~emailEnabled THEN AlSkip("skip_email_disabled")
    ELSE LET p == parse_block_trade_message(m)
         IN IF p.pc = "raised" THEN AlSkip("failed")
            ELSE after_send(alert_decision(alertCfg.alert_test_mode, p.result),
                            how)

\* handle_new_message(event): save_message returns None for a known
\* message_id, raises when the commit fails (saved = FALSE), and otherwise
\* returns the new row, for which a block trade triggers the alert
HandleNewMessage(id, m, saved, how) ==
    /\ nDeliv < MaxDeliveries
    /\ nDeliv' = nDeliv + 1
    /\ IF id \in DOMAIN messages \/ ~saved
       THEN UNCHANGED <<messages, outbox>>
       ELSE /\ messages' = messages @@ (id :> m)
            /\ LET a == send_alert_email(m, how)
               IN outbox' = IF is_block_trade(m) /\ a.emails = 1
                            THEN Append(outbox, [message_id |-> id,
                                                 reasons |-> a.reasons,
                                                 text |-> m])
                            ELSE outbox
    /\ UNCHANGED <<ledgerVars, emailEnabled, healthVars, alertVars, rep>>

InitFeed ==
    /\ LedgerIdle
    /\ HealthIdle
    /\ msg = NoMsg
    /\ ps = PsIdle
    /\ al = AlIdle
    /\ \E s \in AlertSettings :
          /\ alertCfg = [volume_alert_enabled |-> s[1], alert_test_mode |-> s[2]]
          /\ emailEnabled = s[3]
    /\ FeedIdle

NextFeed ==
    \E id \in 1..MaxMsgId, m \in FeedTexts, saved \in BOOLEAN, how \in SendOutcomes :
       HandleNewMessage(id, m, saved, how)

SpecFeed == InitFeed /\ [][NextFeed]_vars

\* ------------------------------------------------------------------------
\* report_generator.build_daily_report_data over the rows of the messages
\* table.  A row is the text of a message (body, footer) and, for a
\* 'Spot Prices' broadcast, the BTC and ETH price tokens of the broadcast.
\* Message ids grow with the message date; the report window starts at the
\* date of message 1.
\* ------------------------------------------------------------------------
ReportRows ==
    LET L == SampleLines
        Trade(body) ==
            [body |-> body, footer |-> Some("Deribit"), spot |-> Absent]
        Spot(btc, eth) ==
            [body |-> <<>>, footer |-> Absent,
             spot |-> Some([btc |-> btc, eth |-> eth])]
        \* Bought 100x BTC-27MAR26 Total Bought: 2.00 B ($200.00K)
        FutTotal ==
            [L.LegN EXCEPT
               !.total = Some([native |-> <<"2", ".", "0", "0">>,
                               unit |-> "btc",
                               usd |-> <<"2", "0", "0", ".", "0", "0", "K">>])]
        \* Bought 1000x ETH-27MAR26-3000-C ..., Ref: $12,500.00
        EthRef ==
            [L.LegJ EXCEPT
               !.ref = Some(<<"1", "2", ",", "5", "0", "0", ".", "0", "0">>)]
    IN {Trade(<<L.LegC>>), Trade(<<L.LegD>>), Trade(<<L.LegN>>),
        Trade(<<L.LegA, L.LegF>>), Trade(<<EthRef>>),
        Trade(<<L.LegA, FutTotal>>),
        \* Spot Prices  BTC: $87,232.15  ETH: $3,012.50
        Spot(Some(<<"8", "7", ",", "2", "3", "2", ".", "1", "5">>),
             Some(<<"3", ",", "0", "1", "2", ".", "5", "0">>)),
        \* Spot Prices  BTC: $999,999.00
        Spot(Some(<<"9", "9", "9", ",", "9", "9", "9", ".", "0", "0">>),
             Absent)}

\* normalize_block_trades(block_trades, filter_non_options): one dict per
\* trade; with the filter on, a trade whose text-wide instrument_type is
\* FUTURES or PERPETUAL is skipped; a trade whose parse raises gets the
\* default dict in both modes
normalize_block_trades(block_trades, filter_non_options) ==
    LET dict(t, lines, parsed) ==
          LET Contracts ==
                  {lines[i].start[1].contract :
                      i \in {k \in 1..Len(lines) : lines[k].start # Absent}}
              Words == UNION {lines[i].words : i \in 1..Len(lines)}
              \* 2. of the parser: PERPETUAL/PERP, FUTURES/-FUT, PUT|CALL,
              \* (BTC|ETH)-\d{1,2}[A-Z]{3}\d{2,4}-\d+-[PC] anywhere in the text
              instrument_type ==
                  IF \E c \in Contracts : contains_perp(c) THEN "PERPETUAL"
                  ELSE IF \E c \in Contracts : contains_fut(c) THEN "FUTURES"
                  ELSE IF Words \cap {"PUT", "CALL"} # {} THEN "OPTIONS"
                  ELSE IF \E c \in Contracts :
                             /\ Len(c) >= 4
                             /\ c[2] \in {"19DEC25", "27FEB26", "27MAR26"}
                             /\ c[3] \in {"91000", "80000", "3000"}
                             /\ c[4] \in {"P", "C"}
                  THEN "OPTIONS"
                  ELSE "Unknown"
              \* 4. of the parser: the leftmost (\d+\.?\d*)\s*x of the text
              x_match(tok) ==
                  LET I == {i \in 1..Len(tok) :
                               /\ tok[i] \in Digit
                               /\ FloatOk(SubSeq(tok, i, Len(tok)))}
                  IN IF I = {} THEN Absent
                     ELSE Some(SubSeq(tok, CHOOSE i \in I : \A j \in I : i <= j,
                                      Len(tok)))
              V == {i \in 1..Len(lines) :
                       /\ lines[i].start # Absent
                       /\ x_match(lines[i].start[1].vol) # Absent}
              volume ==
                  IF V = {} THEN 0
                  ELSE FloatValue(x_match(lines[CHOOSE k \in V :
                                      \A j \in V : k <= j].start[1].vol)[1])
              \* amount_usd of the parser: the largest parse_amount over
              \* every 'Total <side>: ... $([0-9,.]+[KMB]?)' of the text;
              \* parse_amount gives 0.0 where float() raises
              parse_amount(tok) ==
                  LET p == LongestPrefix(tok, DigitCommaDot)
                      g == IF Len(tok) > Len(p) /\ tok[Len(p) + 1] \in SuffixChars
                           THEN SubSeq(tok, 1, Len(p) + 1) ELSE p
                      v == parse_amount_with_suffix(g)
                  IN IF v = Absent THEN 0 ELSE v[1]
              A == {parse_amount(lines[i].total[1].usd) :
                       i \in {k \in 1..Len(lines) :
                                 /\ lines[k].total # Absent
                                 /\ LongestPrefix(lines[k].total[1].usd,
                                                  DigitCommaDot) # <<>>}}
              amount_usd ==
                  IF A = {} THEN 0 ELSE CHOOSE a \in A : \A b \in A : b <= a
              options_legs == trade_get(parsed.result, "options_legs", <<>>)
              \* sum(leg.get('total_usd', 0) for leg in options_legs
              \*     if leg.get('total_usd'))
              legs_total[k \in 0..Len(options_legs)] ==
                  IF k = 0 THEN 0
                  ELSE legs_total[k - 1]
                       + (IF options_legs[k].total_usd = Absent THEN 0
                          ELSE options_legs[k].total_usd[1])
              amount_usd_display ==
                  IF Len(options_legs) >= 1
                  THEN IF legs_total[Len(options_legs)] = 0 THEN amount_usd
                       ELSE legs_total[Len(options_legs)]
                  ELSE amount_usd
              volume_display ==
                  IF Len(options_legs) >= 1
                  THEN trade_get(parsed.result, "options_sum", 0)
                  ELSE volume
          IN IF parsed.pc = "raised"
             THEN [msg_id |-> t.message_id, asset |-> "Unknown", volume |-> 0,
                   amount_usd |-> 0, instrument_type |-> "Unknown",
                   options_count |-> 0]
             ELSE [msg_id |-> t.message_id,
                   asset |-> trade_get(parsed.result, "asset", "Unknown"),
                   volume |-> volume_display,
                   amount_usd |-> amount_usd_display,
                   instrument_type |-> instrument_type,
                   options_count |-> Len(options_legs)]
        \* parsed = parse_block_trade_message(trade.text or ''), taken once
        normalized(t) ==
            CHOOSE d \in {dict(t, lines, parsed) :
                             lines \in {TextLines(t.row)},
                             parsed \in {parse_block_trade_message(t.row)}} :
                TRUE
        all == [i \in 1..Len(block_trades) |-> normalized(block_trades[i])]
    IN SelectSeq(all, LAMBDA r :
                    ~(/\ filter_non_options
                      /\ r.instrument_type \in {"FUTURES", "PERPETUAL"}))

\* sorted(xs, key=..., reverse=True): descending by key; the sort is stable,
\* elements with equal keys keep the order they have in xs
sorted_desc(xs, key) ==
    LET n == Len(xs)
        Pos(i) ==
            1 + Cardinality({j \in 1..n :
                                \/ key[xs[j]] > key[xs[i]]
                                \/ key[xs[j]] = key[xs[i]] /\ j < i})
    IN [p \in 1..n |-> xs[CHOOSE i \in 1..n : Pos(i) = p]]

\* parse_spot_message(text): the number after BTC and the number after ETH,
\* ([0-9,]+\.?[0-9]*), each kept when float() returns and the value is
\* strictly inside its band
parse_spot_message(spot) ==
    LET group(tok) ==
            LET a == LongestPrefix(tok, Digit \cup {","})
                rest == SubSeq(tok, Len(a) + 1, Len(tok))
            IN IF a = <<>> THEN <<>>
               ELSE IF rest # <<>> /\ rest[1] = "."
               THEN a \o <<".">>
                      \o LongestPrefix(SubSeq(rest, 2, Len(rest)), Digit)
               ELSE a
        price(field, lo, hi) ==
            IF field = Absent THEN Absent
            ELSE LET s == StripCommas(group(field[1]))
                 IN IF FloatOk(s) /\ 100 * lo < FloatValue(s)
                                  /\ FloatValue(s) < 100 * hi
                    THEN Some(FloatValue(s)) ELSE Absent
    IN [btc |-> price(spot.btc, BTC_SPOT_MIN, BTC_SPOT_MAX),
        eth |-> price(spot.eth, ETH_SPOT_MIN, ETH_SPOT_MAX)]

\* extract_spot_prices(messages, start_date, end_date); messages is a
\* sequence of [message_id, row], latest first; a message is inside the
\* window when its id is at least 1
extract_spot_prices(all_messages) ==
    LET spot_messages == SelectSeq(all_messages, LAMBDA t : t.row.spot # Absent)
        in_window_msgs == SelectSeq(spot_messages, LAMBDA t : t.message_id >= 1)
        before_window_msgs ==
            SelectSeq(spot_messages, LAMBDA t : t.message_id < 1)
        message_id ==
            [t \in {all_messages[i] : i \in DOMAIN all_messages} |-> t.message_id]
        latest(ms) == sorted_desc(ms, message_id)[1]
        from_tag(t, source) ==
            [btc |-> parse_spot_message(t.row.spot[1]).btc,
             eth |-> parse_spot_message(t.row.spot[1]).eth,
             spot_source |-> source, source_msg_id |-> Some(t.message_id)]
        \* the first (?:Ref|REF)[\*:\s]{1,5}\$([0-9,.]+) of a text
        ref_match(ls) ==
            LET I == {i \in 1..Len(ls) :
                         /\ ls[i].ref # Absent
                         /\ LongestPrefix(ls[i].ref[1], DigitCommaDot) # <<>>}
            IN IF I = {} THEN <<>>
               ELSE StripCommas(LongestPrefix(
                        ls[CHOOSE i \in I : \A j \in I : i <= j].ref[1],
                        DigitCommaDot))
        has_ref(t) ==
            /\ ref_match(TextLines(t.row)) # <<>>
            /\ FloatOk(ref_match(TextLines(t.row)))
            /\ asset_of(TextLines(t.row)) \in {"BTC", "ETH"}
            /\ t.message_id >= 1
        ref_messages_sorted ==
            sorted_desc(SelectSeq(all_messages, has_ref), message_id)
        first_ref(asset) ==
            LET M == SelectSeq(ref_messages_sorted,
                               LAMBDA t : asset_of(TextLines(t.row)) = asset)
            IN IF M = <<>> THEN Absent ELSE Some(M[1])
        ref_price(asset) ==
            IF first_ref(asset) = Absent THEN Absent
            ELSE Some(FloatValue(ref_match(TextLines(first_ref(asset)[1].row))))
        latest_msg ==
            IF first_ref("BTC") # Absent THEN first_ref("BTC")[1]
            ELSE first_ref("ETH")[1]
    IN IF in_window_msgs # <<>>
       THEN from_tag(latest(in_window_msgs), "spot_prices_tag")
       ELSE IF before_window_msgs # <<>>
       THEN from_tag(latest(before_window_msgs), "spot_prices_fallback")
       ELSE IF ref_messages_sorted # <<>>
       THEN [btc |-> ref_price("BTC"), eth |-> ref_price("ETH"),
             spot_source |-> "ref_fallback",
             source_msg_id |-> Some(latest_msg.message_id)]
       ELSE [btc |-> Absent, eth |-> Absent, spot_source |-> "missing",
             source_msg_id |-> Absent]

\* if t.get('amount_usd', 0) > 0: the filter of the by-amount rankings
has_amount(t) == t.amount_usd > 0

\* build_daily_report_data(messages, block_trades, start_date, end_date,
\* top_limit).  The dicts of normalized_options are shared by every list
\* that ranks them: trades holds the dicts, the lists hold positions in it,
\* and t['rank'] = i written through one list is seen through the others.
build_daily_report_data(all_messages, block_trades, top_limit) ==
    LET take(s, k) == SubSeq(s, 1, IF Len(s) < k THEN Len(s) ELSE k)
        In(s, i) == \E k \in 1..Len(s) : s[k] = i
        \* the five lists, each a sequence of positions in normalized_options
        lists(normalized_options) ==
            LET every == [i \in 1..Len(normalized_options) |-> i]
                volume == [i \in 1..Len(normalized_options) |->
                              normalized_options[i].volume]
                amount == [i \in 1..Len(normalized_options) |->
                              normalized_options[i].amount_usd]
                of(asset) ==
                    SelectSeq(every,
                              LAMBDA i : normalized_options[i].asset = asset)
                with_amount(asset) ==
                    SelectSeq(every,
                              LAMBDA i : /\ normalized_options[i].asset = asset
                                         /\ has_amount(normalized_options[i]))
            IN [btc_by_amount |->
                    take(sorted_desc(with_amount("BTC"), amount), top_limit),
                btc_by_volume |-> take(sorted_desc(of("BTC"), volume), top_limit),
                eth_by_amount |->
                    take(sorted_desc(with_amount("ETH"), amount), top_limit),
                eth_by_volume |-> take(sorted_desc(of("ETH"), volume), top_limit),
                top_trades_list |->
                    take(sorted_desc(every, volume), 2 * top_limit)]
        report(normalized_all, normalized_options, top, spot_prices) ==
            LET n == Len(normalized_options)
                count(asset) ==
                    Cardinality({i \in 1..n : normalized_options[i].asset = asset})
                total[k \in 0..n, asset \in {"BTC", "ETH"}] ==
                    IF k = 0 THEN 0
                    ELSE total[k - 1, asset]
                         + (IF normalized_options[k].asset = asset
                            THEN normalized_options[k].volume ELSE 0)
                all_volumes ==
                    {normalized_options[i].volume :
                        i \in {k \in 1..n : normalized_options[k].volume > 0}}
                \* the enumerate loops in program order; a later loop
                \* overwrites the rank an earlier one wrote
                ranked == <<top.btc_by_volume, top.eth_by_volume,
                            top.btc_by_amount, top.eth_by_amount,
                            top.top_trades_list>>
                rank(i) ==
                    LET W == {w \in 1..Len(ranked) : In(ranked[w], i)}
                    IN IF W = {} THEN Absent
                       ELSE LET s == ranked[CHOOSE w \in W : \A v \in W : v <= w]
                            IN Some(CHOOSE k \in 1..Len(s) : s[k] = i)
            IN [counts |->
                    [block_trades |-> n,
                     btc_count |-> count("BTC"),
                     eth_count |-> count("ETH"),
                     other_count |-> n - count("BTC") - count("ETH"),
                     total_trades_all |-> Len(normalized_all)],
                volume_stats |->
                    [btc_volume |-> total[n, "BTC"],
                     eth_volume |-> total[n, "ETH"],
                     total_volume |-> total[n, "BTC"] + total[n, "ETH"],
                     max_volume |->
                         IF all_volumes = {} THEN 0
                         ELSE CHOOSE v \in all_volumes :
                                 \A w \in all_volumes : w <= v],
                spot_prices |-> spot_prices,
                trades |-> [i \in 1..n |->
                               [msg_id |-> normalized_options[i].msg_id,
                                asset |-> normalized_options[i].asset,
                                volume |-> normalized_options[i].volume,
                                amount_usd |-> normalized_options[i].amount_usd,
                                rank |-> rank(i),
                                also_in |-> Absent]],
                top_trades |->
                    [btc_by_amount |-> top.btc_by_amount,
                     btc_by_volume |-> top.btc_by_volume,
                     eth_by_amount |-> top.eth_by_amount,
                     eth_by_volume |-> top.eth_by_volume],
                top_trades_list |-> top.top_trades_list]
        \* each local of the function is computed once, in program order
        ranked_report(normalized_all, normalized_options, spot_prices) ==
            CHOOSE r \in {report(normalized_all, normalized_options, top,
                                 spot_prices) :
                             top \in {lists(normalized_options)}} : TRUE
    IN CHOOSE r \in
           {ranked_report(normalized_all, normalized_options, spot_prices) :
               spot_prices \in {extract_spot_prices(all_messages)},
               normalized_all \in {normalize_block_trades(block_trades, FALSE)},
               normalized_options \in {normalize_block_trades(block_trades, TRUE)}} :
           TRUE

\* add_also_in_tags(trades_by_amount, trades_by_volume) of
\* build_daily_report_html: the loop over the by-amount list, then the loop
\* over the by-volume list, both writing trade['also_in'] of the shared dicts
add_also_in_tags(trades, trades_by_amount, trades_by_volume) ==
    LET In(s, i) == \E k \in 1..Len(s) : s[k] = i
        rank_in(s, i) == CHOOSE k \in 1..Len(s) : s[k] = i
        tag(s, name, i) ==
            IF In(s, i) THEN Some([list |-> name, rank |-> rank_in(s, i)])
            ELSE Absent
        first == [i \in DOMAIN trades |->
                     IF In(trades_by_amount, i)
                     THEN [trades[i] EXCEPT
                              !.also_in = tag(trades_by_volume, "VOLUME", i)]
                     ELSE trades[i]]
    IN [i \in DOMAIN trades |->
           IF In(trades_by_volume, i)
           THEN [first[i] EXCEPT
                    !.also_in = tag(trades_by_amount, "AMOUNT", i)]
           ELSE first[i]]

\* steps 2 to 5 of generate_daily_report: the two window queries (latest
\* first), the aggregation, and the rendering that tags the rankings;
\* top_limit is the parameter of build_daily_report_data
GenerateReportData(top_limit) ==
    /\ rep.pc = "idle"
    /\ \E stored \in
           {[i \in 1..Cardinality({k \in DOMAIN messages : k >= 1})
                |-> [message_id |-> i, row |-> messages[i]]]} :
       \E all_messages \in
           {sorted_desc(stored, [t \in {stored[i] : i \in DOMAIN stored}
                                    |-> t.message_id])} :
       \E block_trades \in
           {SelectSeq(all_messages, LAMBDA t : is_block_trade(t.row))} :
       \E data \in
           {build_daily_report_data(all_messages, block_trades, top_limit)} :
       \E btc \in
           {add_also_in_tags(data.trades, data.top_trades.btc_by_amount,
                             data.top_trades.btc_by_volume)} :
           rep' = [pc |-> "rendered",
                   top_limit |-> top_limit,
                   data |-> [data EXCEPT
                               !.trades =
                                   add_also_in_tags(
                                       btc, data.top_trades.eth_by_amount,
                                       data.top_trades.eth_by_volume)]]
    /\ UNCHANGED <<ledgerVars, emailEnabled, healthVars, alertVars>>
    /\ UNCHANGED <<messages, outbox, nDeliv>>

InitReport ==
    /\ LedgerIdle
    /\ HealthIdle
    /\ AlertIdle
    /\ emailEnabled = TRUE
    /\ outbox = <<>>
    /\ nDeliv = 0
    /\ rep = [pc |-> "idle"]
    /\ \E hi \in 0..MaxRows : messages \in [1..hi -> ReportRows]

NextReport == \E top_limit \in 1..MaxTop : GenerateReportData(top_limit)

SpecReport == InitReport /\ [][NextReport]_vars

\* ------------------------------------------------------------------------
\* scheduler.TaskScheduler.setup: the two cron jobs of the scheduler process,
\* day after day.  Job daily_report_generate fires once a day for that day's
\* report_date and job daily_report_send fires once a day; a generation that
\* its wrapper retries may complete after that day's send-check.  nGen and
\* nRuns count the firings of the current day.  No send fails and no flush
\* or commit fails.
\*
\* The report dates of the first MaxDate days are 1..MaxDate.  From then on
\* date MaxDate stands for the newest report_date: its row of the day before
\* was sent, a sent row is never read again by send_pending_daily_reports
\* (both queries filter is_sent == False), and the row of the new day takes
\* its place.  While the newest row is still unsent the new day's generation
\* is the late one.
\* ------------------------------------------------------------------------
\* report_date of the generation of the current day
report_date_today(l) ==
    IF \E d \in Dates : ~l[d].exists
    THEN CHOOSE d \in Dates : ~l[d].exists /\ \A e \in Dates : e < d => l[e].exists
    ELSE MaxDate

\* the cron trigger of job daily_report_generate fires
DailyAggregation ==
    /\ nGen = 0
    /\ ledger[report_date_today(ledger)].exists
           => ledger[report_date_today(ledger)].is_sent
    /\ GenStart(1, report_date_today(ledger))

\* the cron trigger of job daily_report_send fires
DailySendCheck ==
    /\ nRuns = 0
    /\ SendJobFire

\* both jobs of the day have run: the next day begins
NextDay ==
    /\ nGen = 1
    /\ nRuns = 1
    /\ SchedulerThreadFree
    /\ wr.pc \in {"idle", "done"}
    /\ nGen' = 0
    /\ nRuns' = 0
    /\ UNCHANGED <<ledger, lockHolder, gen, snd, wr, dbReady, emailEnabled, hist>>
    /\ UNCHANGED pipelineVars

InitDaily ==
    /\ LedgerIdle
    /\ emailEnabled = TRUE
    /\ PipelineIdle

NextDaily ==
    \/ DailyAggregation
    \/ GenAcquire(1)
    \/ GenUpsert(1)
    \/ GenCommitOk(1)
    \/ DailySendCheck
    \/ SendInvoke /\ dbReady'
    \/ SendQuery
    \/ SendEmailOk
    \/ SendCommitOk
    \/ NextDay

\* the scheduler keeps firing its jobs and every started job body runs on
SpecDaily == InitDaily /\ [][NextDaily]_vars /\ WF_vars(NextDaily)

\* ========================================================================
\* Properties
\* ========================================================================
SentThisStep == snd'.emails # snd.emails /\ snd'.emails # <<>>

IsNewestPending(l, d) ==
    d \in PendingDates(l) /\ \A x \in PendingDates(l) : x <= d

C1_Step ==
    /\ Len(snd'.emails) <= 1
    /\ (snd.pc = "query" /\ snd'.pc = "email") =>
          /\ IsNewestPending(ledger, snd'.cand)
          /\ snd'.logged = PendingDates(ledger) \ {snd'.cand}
    /\ SentThisStep => snd'.emails = <<snd.cand>>
    /\ snd' # snd =>
          \A d \in Dates :
             d # snd.cand => (ledger'[d] = ledger[d])

\* C1: one send-check run sends at most one report, the pending row with
\* the maximum report_date at the time of its query; the other pending rows
\* are only logged and no step of the run changes any row but the candidate.
C1_SendLatestOnly == [][C1_Step]_vars

\* a run has sent the newest report while an older one was pending
C1_Witness ==
    snd.pc = "commit" /\ Len(snd.emails) = 1 /\ snd.logged # {}

\* C2: a report that was logged as backlog is never sent by a later
\* send-check run unless it was regenerated since.
C2_BacklogNeverSent == [][SentThisStep => snd.cand \notin hist.backlog]_vars

\* C3: once a send-check run has sent date D and committed is_sent, no later
\* send-check run sends D again unless D was regenerated in between.
C3_NoResendAfterCommit == [][SentThisStep => snd.cand \notin hist.sent]_vars

\* a later run queries the ledger while a date is sent and committed
C3_Witness ==
    /\ nRuns >= 2
    /\ snd.pc = "query"
    /\ \E d \in hist.sent : ledger[d].is_sent

C4_Step ==
    \A p \in Procs :
       (/\ gen[p].pc = "commit"
        /\ gen[p].staged # "none"
        /\ gen'[p].pc = "idle"
        /\ gen'[p].result = "returned") =>
          LET d == gen[p].date IN
          /\ gen[p].staged = (IF ledger[d].exists THEN "update" ELSE "insert")
          /\ ledger'[d] = [exists |-> TRUE, is_sent |-> FALSE,
                           sent_at |-> None, payload |-> gen[p].payload]
          /\ \A x \in Dates \ {d} : ledger'[x] = ledger[x]
          /\ d \in PendingDates(ledger')
          /\ (\A x \in PendingDates(ledger') : x <= d) =>
                latest_pending_report(ledger') = d

C5_Step ==
    /\ (snd.pc = "email" /\ snd'.pc = "idle") =>
          /\ ledger' = ledger
          /\ ~ledger'[snd.cand].is_sent
          /\ ledger'[snd.cand].sent_at = None
    /\ \A d \in hist.failed : ~ledger[d].is_sent /\ ledger[d].sent_at = None
    /\ (snd.pc = "query" /\ snd'.pc = "email") =>
          \A d \in hist.failed : IsNewestPending(ledger, d) => snd'.cand = d

\* C5: when the send of the candidate fails the row stays Pending (is_sent
\* False, sent_at None) and the next run that selects a candidate selects
\* it again while it is the newest pending row.
C5_FailedSendStaysPending == [][C5_Step]_vars

\* a row whose last send failed is the candidate of a later run
C5_Witness ==
    snd.pc = "email" /\ snd.cand \in hist.failed

\* C6: a commit failure after a successful send ends the call of
\* send_pending_daily_reports with a raised error.
C6_CommitFailureSurfaces ==
    [][(/\ snd.pc = "commit"
        /\ snd'.pc = "idle"
        /\ ~ledger'[snd.cand].is_sent) => wr'.result = "raised"]_vars

\* C7: a storage error raised inside the send-check reaches the retry
\* wrapper, which sleeps and retries on a lock error and raises otherwise.
C7_StorageErrorReachesWrapper ==
    snd.caught \in StorageErrors =>
       /\ wr.last_error = snd.caught
       /\ wr.pc = "sleep" \/ wr.result = "raised"

\* C8: the wrapper sleeps and re-invokes the job only after a transient
\* lock or readonly error; any other error is re-raised at once.
C8_RetryOnlyTransient ==
    wr.pc = "sleep" => wr.last_error \in TransientLockErrors

RECURSIVE Pow2(_)
Pow2(n) == IF n = 0 THEN 1 ELSE 2 * Pow2(n - 1)

AllAttemptsLocked ==
    \A i \in 1..Len(hist.log) : hist.log[i] \in TransientLockErrors

InCriticalSection(p) == gen[p].pc \in {"locked", "commit"}

C10_Step ==
    /\ \A p, q \in Procs :
          (InCriticalSection(p) /\ InCriticalSection(q)) => p = q
    /\ \A p \in Procs : InCriticalSection(p) => lockHolder = p
    /\ \A p \in Procs :
          (gen[p].pc = "wait_lock" /\ gen'[p].pc = "idle") =>
             gen'[p].result = "raised" /\ ledger' = ledger
    /\ \A p \in Procs :
          (gen'[p] # gen[p] /\ ledger' # ledger) =>
             gen[p].pc = "commit" /\ lockHolder = p

\* C10: the read-existing / upsert / commit sequence runs only under the
\* file lock, never in two processes at once; a run that times out on the
\* lock ends with an error and writes nothing.
C10_UpsertUnderFileLock == [][C10_Step]_vars

\* one process is inside the sequence while the other waits for the lock
C10_Witness ==
    \E p, q \in Procs :
       p # q /\ gen[p].pc = "commit" /\ gen[q].pc = "wait_lock"

\* ------------------------------------------------------------------------
\* C11: whenever the health gate detects that the store is corrupted it has
\* made a timestamp-suffixed copy of the file and raised a fatal error, it
\* never deletes, truncates or rebuilds the store it examined, and
\* init_database builds the engine only on a store that the gate reported
\* healthy.
\* ------------------------------------------------------------------------
CorruptionDetected == hg.how \in {"integrity", "database_error"}

C11_CorruptionIsolated ==
    /\ (hg.pc \in {"init", "done"} /\ CorruptionDetected) =>
          /\ hg.gate = "raised"
          /\ hg.how = "integrity"
          /\ hg.stamp \in backups
    /\ (hg.pc # "idle" /\ hg.seen # "absent") => dbFile = hg.seen
    /\ hg.init = "engine" => hg.gate = "true"

\* ------------------------------------------------------------------------
\* Alert decision and trade parser (SpecAlert)
\* ------------------------------------------------------------------------
\* send_alert_email has decided on the trade that the parser returned
Decided == al.pc = "done" /\ ps.pc = "parsed"

OptionsCount(t) == trade_get(t, "options_count", 0)
OptionsSum(t) == trade_get(t, "options_sum", 0)

GuardsPass(t) ==
    /\ OptionsCount(t) > 0
    /\ t.exchange = MONITORED_EXCHANGE
    /\ t.asset \in {"BTC", "ETH"}

\* C12: a parsed trade with zero OPTIONS legs, or whose exchange is not
\* MONITORED_EXCHANGE, or whose asset is neither BTC nor ETH, gets no
\* notification and no send is attempted, whatever its volumes and premiums.
C12_GuardedTradesNeverAlert ==
    (Decided /\ ~GuardsPass(ps.result)) =>
        /\ al.emails = 0
        /\ al.reasons = {}
        /\ al.outcome \in {"skip_no_option_legs", "skip_wrong_exchange",
                           "skip_unknown_asset"}

\* a PERPETUAL-only trade of volume 20,000,000 on the monitored exchange
\* was decided and nothing was sent
C12_Witness ==
    /\ Decided
    /\ ps.result.exchange = MONITORED_EXCHANGE
    /\ ps.result.options_legs = <<>>
    /\ \E i \in 1..Len(ps.result.non_options_legs) :
          /\ ps.result.non_options_legs[i].instrument_type = "PERPETUAL"
          /\ ps.result.non_options_legs[i].volume = 100 * 20000000
    /\ al.emails = 0

ResolvedThreshold(t) ==
    IF t.asset = "BTC" THEN BTC_VOLUME_THRESHOLD
    ELSE IF alertCfg.alert_test_mode THEN ETH_VOLUME_THRESHOLD_TEST
    ELSE ETH_VOLUME_THRESHOLD

KnownTotals(legs, side) ==
    {i \in 1..Len(legs) : legs[i].side = side /\ legs[i].total_usd # Absent}

RECURSIVE SumTotals(_, _)
SumTotals(legs, I) ==
    IF I = {} THEN 0
    ELSE LET i == CHOOSE k \in I : TRUE
         IN legs[i].total_usd[1] + SumTotals(legs, I \ {i})

PremiumOf(legs, side) ==
    IF KnownTotals(legs, side) = {} THEN Absent
    ELSE Some(SumTotals(legs, KnownTotals(legs, side)))

NetPremium(legs) ==
    IF PremiumOf(legs, "LONG") = Absent \/ PremiumOf(legs, "SHORT") = Absent
    THEN Absent
    ELSE Some(PremiumOf(legs, "SHORT")[1] - PremiumOf(legs, "LONG")[1])

AbsNetPremium(legs) ==
    IF NetPremium(legs) = Absent THEN Absent
    ELSE Some(IF NetPremium(legs)[1] < 0 THEN 0 - NetPremium(legs)[1]
              ELSE NetPremium(legs)[1])

\* C14: for a parsed trade that passes all guards, 'premium' is among the
\* reasons exactly when the absolute net premium over its OPTIONS legs is
\* defined and at least 1,000,000 USD, whatever the asset and the volume.
C14_PremiumRule ==
    (Decided /\ GuardsPass(ps.result)) =>
        ("premium" \in al.reasons
            <=> /\ AbsNetPremium(ps.result.options_legs) # Absent
                /\ AbsNetPremium(ps.result.options_legs)[1]
                      >= 100 * PREMIUM_THRESHOLD_USD)

\* C15: the parsed trade carries premium_paid_usd (LONG legs),
\* premium_received_usd (SHORT legs), net_premium_usd = received - paid,
\* defined only when both are, and abs_net_premium_usd = |net_premium_usd|.
C15_PremiumMetrics ==
    ps.pc = "parsed" =>
        LET t == ps.result
            legs == t.options_legs
        IN /\ trade_get(t, "premium_paid_usd", Absent) = PremiumOf(legs, "LONG")
           /\ trade_get(t, "premium_received_usd", Absent)
                 = PremiumOf(legs, "SHORT")
           /\ trade_get(t, "net_premium_usd", Absent) = NetPremium(legs)
           /\ trade_get(t, "abs_net_premium_usd", Absent) = AbsNetPremium(legs)

\* the rules that fire for a text: volume above the threshold of the asset,
\* absolute net premium of the OPTIONS legs at or above 1,000,000 USD
RulesFired(m) ==
    LET t == parse_block_trade_message(m).result
        prem == AbsNetPremium(t.options_legs)
    IN (IF OptionsSum(t) > 100 * ResolvedThreshold(t) THEN {"volume"} ELSE {})
       \cup (IF prem # Absent /\ prem[1] >= 100 * PREMIUM_THRESHOLD_USD
             THEN {"premium"} ELSE {})

\* C16: over any feed at most one alert notification is emitted per message
\* id, a redelivered id adds none, and the one notification of a trade
\* carries every rule that fires for it (both reasons when both fire).
C16_OneNotificationPerMessage ==
    /\ \A i, j \in 1..Len(outbox) :
          outbox[i].message_id = outbox[j].message_id => i = j
    /\ \A i \in 1..Len(outbox) : outbox[i].reasons = RulesFired(outbox[i].text)

\* the line that the loop has just passed, while a leg is open
LastLine == TextLines(msg)[ps.i - 1]
LegOpenAfterLine == ps.pc = "lines" /\ ps.i > 1 /\ ps.cur # Absent

\* C17: while a leg is open, a price line, a Total line, an IV marker or a
\* Ref marker on a line after the Bought/Sold line sets the corresponding
\* fields of that leg.
C17_ContinuationSetsFields ==
    (LegOpenAfterLine /\ ~leg_match(LastLine)) =>
        /\ price_match(LastLine) =>
              /\ ps.cur[1].price_btc # Absent
              /\ ps.cur[1].price_usd # Absent
        /\ total_match(LastLine) =>
              /\ ps.cur[1].total_btc # Absent
              /\ ps.cur[1].total_usd
                    = parse_amount_with_suffix(LastLine.total[1].usd)
        /\ iv_match(LastLine) => ps.cur[1].iv # Absent
        /\ ref_group(LastLine) # <<>> => ps.cur[1].ref_spot_usd # Absent

\* the legs that the leg-start lines of the text open, in text order
StartIndexes(m) ==
    {i \in 1..Len(TextLines(m)) : leg_match(TextLines(m)[i])}

RECURSIVE SeqSum(_, _)
SeqSum(legs, n) == IF n = 0 THEN 0 ELSE SeqSum(legs, n - 1) + legs[n].volume

IsMaxVolume(legs, v) ==
    IF legs = <<>> THEN v = 0
    ELSE /\ \E i \in 1..Len(legs) : legs[i].volume = v
         /\ \A i \in 1..Len(legs) : legs[i].volume <= v

\* C18: every leg-start line gives exactly one leg, which is in exactly one
\* of options_legs / non_options_legs (a leg still open at the end of the
\* text included); options_sum is the sum of the volumes of the OPTIONS legs
\* and options_max their maximum, 0 when there is none.
C18_LegsPartition ==
    ps.pc = "parsed" =>
        LET t == ps.result
        IN /\ Cardinality(StartIndexes(msg))
                 = OptionsCount(t) + Len(t.non_options_legs)
           /\ OptionsCount(t) = Len(t.options_legs)
           /\ \A i \in 1..Len(t.options_legs) :
                 t.options_legs[i].instrument_type = "OPTIONS"
           /\ \A i \in 1..Len(t.non_options_legs) :
                 t.non_options_legs[i].instrument_type # "OPTIONS"
           /\ OptionsSum(t) = SeqSum(t.options_legs, Len(t.options_legs))
           /\ IsMaxVolume(t.options_legs, trade_get(t, "options_max", 0))

\* a text whose last line opens a leg was parsed into OPTIONS legs and
\* other legs
C18_Witness ==
    /\ ps.pc = "parsed"
    /\ msg.footer = Absent
    /\ Len(msg.body) >= 2
    /\ leg_match(msg.body[Len(msg.body)])
    /\ Len(ps.result.options_legs) >= 1
    /\ Len(ps.result.non_options_legs) >= 1

\* the priority of the classification: OPTIONS pattern, then PERPETUAL,
\* then FUTURES, then FUTURES
PriorityType(c) ==
    IF ends_like_option(c) THEN "OPTIONS"
    ELSE IF contains_perp(c) THEN "PERPETUAL"
    ELSE IF contains_fut(c) THEN "FUTURES"
    ELSE "FUTURES"

AllLegs(t) == t.options_legs \o t.non_options_legs

\* C19: every leg is typed by priority: a contract ending in -<digits>-P or
\* -<digits>-C is OPTIONS whatever else it contains, otherwise PERPETUAL /
\* PERP gives PERPETUAL, otherwise FUTURES.
C19_ClassificationPriority ==
    ps.pc = "parsed" =>
        \A i \in 1..Len(AllLegs(ps.result)) :
           AllLegs(ps.result)[i].instrument_type
              = PriorityType(AllLegs(ps.result)[i].contract)

\* C20: parse_block_trade_message returns a trade for every text and never
\* raises; a malformed numeric token leaves its field unknown.
C20_ParserNeverRaises == ps.pc # "raised"

\* ------------------------------------------------------------------------
\* Daily aggregation (SpecReport)
\* ------------------------------------------------------------------------
ReportBlocks == {i \in DOMAIN messages : is_block_trade(messages[i])}

HasOptionsLeg(row) ==
    \E parsed \in {parse_block_trade_message(row)} :
        /\ parsed.pc = "parsed"
        /\ Len(trade_get(parsed.result, "options_legs", <<>>)) >= 1

\* C21: in the report data a block trade contributes to the per-asset counts,
\* the volume statistics and the rankings exactly when it has at least one
\* OPTIONS leg; a trade without one counts only in total_trades_all
C21_OptionsBearingOnly ==
    rep.pc = "rendered" =>
        LET Bearing == {i \in ReportBlocks : HasOptionsLeg(messages[i])}
        IN /\ {rep.data.trades[k].msg_id : k \in DOMAIN rep.data.trades} = Bearing
           /\ rep.data.counts.block_trades = Cardinality(Bearing)
           /\ rep.data.counts.btc_count + rep.data.counts.eth_count
                + rep.data.counts.other_count = Cardinality(Bearing)
           /\ rep.data.counts.total_trades_all = Cardinality(ReportBlocks)

\* the ranked trades of a list of the report, first to last
Ranked(list) == [k \in 1..Len(list) |-> rep.data.trades[list[k]]]

\* the trades of the report that belong to an asset
TradesOf(asset) ==
    {rep.data.trades[i] : i \in {k \in DOMAIN rep.data.trades :
                                    rep.data.trades[k].asset = asset}}

\* t ranks before u by volume: larger volume, or equal volume and earlier
\* (message ids grow with the timestamp)
VolumeBefore(t, u) ==
    \/ t.volume > u.volume
    \/ t.volume = u.volume /\ t.msg_id < u.msg_id

\* C22: the by-volume ranking of an asset is that asset's trades sorted by
\* volume, largest first, cut to the first top_limit; among equal volumes the
\* trade with the earlier timestamp comes first
C22_ByVolumeRanking ==
    rep.pc = "rendered" =>
        \A asset \in {"BTC", "ETH"} :
            LET list == Ranked(IF asset = "BTC"
                               THEN rep.data.top_trades.btc_by_volume
                               ELSE rep.data.top_trades.eth_by_volume)
                Listed == {list[k] : k \in 1..Len(list)}
            IN /\ Listed \subseteq TradesOf(asset)
               /\ Cardinality(Listed) = Len(list)
               /\ Len(list) = IF Cardinality(TradesOf(asset)) < rep.top_limit
                              THEN Cardinality(TradesOf(asset))
                              ELSE rep.top_limit
               /\ \A k \in 1..(Len(list) - 1) :
                     VolumeBefore(list[k], list[k + 1])
               /\ \A t \in Listed, u \in TradesOf(asset) \ Listed :
                     VolumeBefore(t, u)

\* the sum of total_usd over the OPTIONS legs of a message that have one;
\* Absent when no OPTIONS leg of the message has a known total_usd
OptionsTotalUsd(row) ==
    LET parsed == parse_block_trade_message(row)
        legs == IF parsed.pc = "parsed"
                THEN trade_get(parsed.result, "options_legs", <<>>) ELSE <<>>
        Known == {i \in 1..Len(legs) : legs[i].total_usd # Absent}
    IN IF Known = {} THEN Absent ELSE Some(SumTotals(legs, Known))

ByAmountLists ==
    {rep.data.top_trades.btc_by_amount, rep.data.top_trades.eth_by_amount}

\* C23: every trade of a by-amount ranking has a known, positive sum of
\* total_usd over its OPTIONS legs, and is ranked by that sum; a trade whose
\* OPTIONS legs have no known total_usd is not in the ranking
C23_ByAmountKnownTotal ==
    rep.pc = "rendered" =>
        \A list \in ByAmountLists :
            \A k \in 1..Len(list) :
                LET t == rep.data.trades[list[k]]
                    known == OptionsTotalUsd(messages[t.msg_id])
                IN /\ known # Absent
                   /\ known[1] > 0
                   /\ t.amount_usd = known[1]

PositionIn(list, i) == CHOOSE k \in 1..Len(list) : list[k] = i

Holds(list, i) == \E k \in 1..Len(list) : list[k] = i

\* the tag an entry of one ranking must carry about the other ranking
CrossTag(other, name, i) ==
    IF Holds(other, i)
    THEN Some([list |-> name, rank |-> PositionIn(other, i)])
    ELSE Absent

\* C24: once both rankings of an asset are built and tagged, a trade that is
\* in both carries on its by-amount entry a tag with its by-volume rank and on
\* its by-volume entry a tag with its by-amount rank; a trade that is in only
\* one of them carries no tag
C24_AlsoInTags ==
    rep.pc = "rendered" =>
        \A lists \in {<<rep.data.top_trades.btc_by_amount,
                        rep.data.top_trades.btc_by_volume>>,
                      <<rep.data.top_trades.eth_by_amount,
                        rep.data.top_trades.eth_by_volume>>} :
            /\ \A k \in 1..Len(lists[1]) :
                  Ranked(lists[1])[k].also_in
                      = CrossTag(lists[2], "VOLUME", lists[1][k])
            /\ \A k \in 1..Len(lists[2]) :
                  Ranked(lists[2])[k].also_in
                      = CrossTag(lists[1], "AMOUNT", lists[2][k])

\* C25: every entry of every ranking list of the report (the four per-asset
\* rankings and the combined top list) has a rank equal to its position in
\* that list, counted from 1, also when the trade is in more than one list
C25_RankIsPosition ==
    rep.pc = "rendered" =>
        \A list \in ByAmountLists
                      \cup {rep.data.top_trades.btc_by_volume,
                            rep.data.top_trades.eth_by_volume,
                            rep.data.top_trades_list} :
            \A k \in 1..Len(list) : Ranked(list)[k].rank = Some(k)

\* the messages of the window, latest first, as the window query returns them
WindowMessages(tags) ==
    LET Ids == {i \in DOMAIN messages :
                   i >= 1 /\ (messages[i].spot # Absent) = tags}
        n == Cardinality(Ids)
        nth[k \in 1..n] ==
            CHOOSE i \in Ids : Cardinality({j \in Ids : j > i}) = k - 1
    IN [k \in 1..n |-> [message_id |-> nth[k], row |-> messages[nth[k]]]]

\* C26: extract_spot_prices returns the prices of the first source that has
\* one: the latest 'Spot Prices' message of the window, else the latest Ref
\* per asset of the window's trades, else no price with source 'missing'; a
\* source that yields no valid price does not keep the next one from being used
C26_SpotSourcePriority ==
    rep.pc = "rendered" =>
        LET tags == WindowMessages(TRUE)
            tag == parse_spot_message(tags[1].row.spot[1])
            lower == extract_spot_prices(
                         WindowMessages(FALSE))
            got == rep.data.spot_prices
        IN IF tags # <<>> /\ (tag.btc # Absent \/ tag.eth # Absent)
           THEN /\ got.spot_source = "spot_prices_tag"
                /\ got.source_msg_id = Some(tags[1].message_id)
                /\ got.btc = tag.btc
                /\ got.eth = tag.eth
           ELSE got = lower

\* C27: every BTC and ETH spot price of the report, whichever source it comes
\* from (the Ref fallback included), lies strictly inside its band
C27_SpotPriceInBand ==
    rep.pc = "rendered" =>
        LET got == rep.data.spot_prices
        IN /\ got.btc # Absent =>
                 /\ 100 * BTC_SPOT_MIN < got.btc[1]
                 /\ got.btc[1] < 100 * BTC_SPOT_MAX
           /\ got.eth # Absent =>
                 /\ 100 * ETH_SPOT_MIN < got.eth[1]
                 /\ got.eth[1] < 100 * ETH_SPOT_MAX

\* ------------------------------------------------------------------------
\* Sessions, commit retries and delivery (Spec)
\* ------------------------------------------------------------------------
\* C28: no run holds a storage session open across a wait: the session is
\* closed before the run starts to wait for the file lock and before the
\* outbound send of the report e-mail begins
C28_NoSessionAcrossWait ==
    /\ \A p \in Procs : gen[p].pc = "wait_lock" => ~gen_session_open(gen[p])
    /\ snd.pc = "email" => ~snd_session_open(snd)

C29_Step ==
    \A p \in Procs :
       (/\ gen[p].pc = "commit"
        /\ gen'[p].pc = "idle"
        /\ gen'[p].result = "returned") =>
          ledger'[gen[p].date] = [exists |-> TRUE, is_sent |-> FALSE,
                                  sent_at |-> None, payload |-> gen[p].payload]

\* C29: when generate_daily_report returns normally, also after 'database is
\* locked' commit retries, the ledger holds a row for the run's report_date
\* with this run's payload and is_sent False; a normal return never leaves
\* the ledger without that row or with the previous payload
C29_ReturnLeavesOwnRow == [][C29_Step]_vars

\* C30: every report committed by the scheduled aggregation is eventually
\* sent by a scheduled send-check, when no send and no commit fails and every
\* day brings a new report; also when the aggregation of a day completes
\* after the send-check of that day
C30_CommittedEventuallySent ==
    \A d \in Dates :
        (ledger[d].exists /\ ~ledger[d].is_sent) ~> ledger[d].is_sent

====
